---- MODULE Spec2Model ----
(***************************************************************************)
(* A model of the JTCG customer-support agent: the retrieval store         *)
(* (vector_db.py), the record normalizer's tables (data_processor.py),     *)
(* the capability handlers (agent_functions.py) and the mocked handover    *)
(* transport (handover_simple_mock.py).                                    *)
(*                                                                         *)
(* Python str values that are only compared or concatenated are TLA+       *)
(* strings; str values that are inspected character by character (emails,  *)
(* conversation ids, summaries) are sequences of one-character strings.    *)
(***************************************************************************)
EXTENDS Integers, Sequences, FiniteSets, TLC

VARIABLES
    client,                \* VectorDB.client: the persisted index, one entry set per collection name
    knowledge_collection,  \* VectorDB.knowledge_collection: TRUE when bound to a handle, FALSE when None
    products_collection,   \* VectorDB.products_collection: likewise
    knowledge_base,        \* DataProcessor.knowledge_base
    products,              \* DataProcessor.products
    orders_db,             \* DataProcessor.orders_db
    inserted,              \* history: per collection, the entries its populate call has added since the last wipe
    call,                  \* the last operation and its arguments
    ret,                   \* what the last operation returned (or that it raised)
    transport_calls,       \* the calls of handover_simple made by the last handler invocation
    api_payloads           \* the payloads handed to _mock_api_call by the last handler invocation

vars == <<client, knowledge_collection, products_collection, knowledge_base, products,
          orders_db, inserted, call, ret, transport_calls, api_payloads>>

storeVars == <<client, knowledge_collection, products_collection, inserted>>
tableVars == <<knowledge_base, products, orders_db>>
handoverVars == <<transport_calls, api_payloads>>

----------------------------------------------------------------------------
(* Bounds of the model *)

MaxList == 2           \* longest record list handed to a populate or load call
MaxResults == 3        \* largest n_results / max_results asked of a search

----------------------------------------------------------------------------
(* Small helpers *)

Min(a, b) == IF a < b THEN a ELSE b

Range(s) == {s[i] : i \in DOMAIN s}

SeqsUpTo(S, n) == UNION {[1..m -> S] : m \in 0..n}

\* Python's sep.join(parts)
RECURSIVE Join(_, _)
Join(sep, parts) ==
    IF parts = <<>> THEN ""
    ELSE IF Len(parts) = 1 THEN parts[1]
    ELSE parts[1] \o sep \o Join(sep, Tail(parts))

\* the parts that are truthy (non-empty strings), in order
RECURSIVE NonEmptyParts(_)
NonEmptyParts(parts) ==
    IF parts = <<>> THEN <<>>
    ELSE IF parts[1] = "" THEN NonEmptyParts(Tail(parts))
    ELSE <<parts[1]>> \o NonEmptyParts(Tail(parts))

----------------------------------------------------------------------------
(* Sample records *)

K1 == [id |-> "FAQ-1", title |-> "Returns", content |-> "Return within 30 days",
       url_label |-> "", url_href |-> "", image_url |-> "", tags |-> <<>>]

\* a changed version of K1: same id, different content
K1b == [id |-> "FAQ-1", title |-> "Returns", content |-> "Return within 7 days",
        url_label |-> "Policy", url_href |-> "https://jtcg/returns", image_url |-> "",
        tags |-> <<"returns">>]

K2 == [id |-> "FAQ-2", title |-> "Warranty", content |-> "Two years",
       url_label |-> "", url_href |-> "https://jtcg/warranty", image_url |-> "https://jtcg/w.png",
       tags |-> <<"warranty", "policy">>]

KnowledgeItems == {K1, K1b, K2}

P1 == [sku |-> "ARM-1", name |-> "Single Arm", arm_type |-> "single", size_max_inch |-> "27",
       vesa_options |-> <<"75x75", "100x100">>, weight_per_arm_kg |-> "8",
       desk_thickness_mm |-> "10-50", rotation |-> "360", tilt |-> "", swivel |-> "",
       usb_hub |-> FALSE, compatibility_notes |-> "", url |-> "https://jtcg/arm-1",
       image_url |-> "", reach_mm |-> "", tray_size_inch |-> "", includes |-> <<>>]

\* a changed version of P1: same sku, different name and specs
P1b == [sku |-> "ARM-1", name |-> "Single Arm v2", arm_type |-> "single", size_max_inch |-> "",
        vesa_options |-> <<>>, weight_per_arm_kg |-> "", desk_thickness_mm |-> "",
        rotation |-> "", tilt |-> "", swivel |-> "", usb_hub |-> TRUE,
        compatibility_notes |-> "No curved screens", url |-> "", image_url |-> "",
        reach_mm |-> "", tray_size_inch |-> "", includes |-> <<"clamp">>]

P2 == [sku |-> "ARM-2", name |-> "Dual Arm", arm_type |-> "dual", size_max_inch |-> "32",
       vesa_options |-> <<"100x100">>, weight_per_arm_kg |-> "9", desk_thickness_mm |-> "",
       rotation |-> "", tilt |-> "", swivel |-> "", usb_hub |-> FALSE,
       compatibility_notes |-> "Needs 60cm desk", url |-> "https://jtcg/arm-2",
       image_url |-> "https://jtcg/arm-2.png", reach_mm |-> "", tray_size_inch |-> "",
       includes |-> <<"clamp", "grommet">>]

ProductItems == {P1, P1b, P2}

KnowledgeLists == SeqsUpTo(KnowledgeItems, MaxList)
ProductLists == SeqsUpTo(ProductItems, MaxList)

Queries == {"return policy", "dual monitor arm"}

----------------------------------------------------------------------------
(* json.dumps / json.loads of a list of strings (metadata of list fields) *)

RECURSIVE Quoted(_)
Quoted(list) ==
    IF list = <<>> THEN <<>> ELSE <<"\"" \o list[1] \o "\"">> \o Quoted(Tail(list))

JsonDumps(list) == "[" \o Join(", ", Quoted(list)) \o "]"

\* the list fields the sample records carry
StringLists ==
    {k.tags : k \in KnowledgeItems}
        \cup {p.vesa_options : p \in ProductItems} \cup {p.includes : p \in ProductItems}

\* json.loads parses the text back: the list whose encoding the text is
JsonLoads(text) == CHOOSE list \in StringLists : JsonDumps(list) = text

----------------------------------------------------------------------------
(* VectorDB: document construction *)

_create_knowledge_document(item) ==
    LET doc_parts == << "Title: " \o item.title,
                        "Content: " \o item.content,
                        IF item.tags # <<>> THEN "Tags: " \o Join(", ", item.tags) ELSE "" >>
    IN  Join(" ", NonEmptyParts(doc_parts))

_create_product_document(product) ==
    LET doc_parts == <<
            "Name: " \o product.name,
            "SKU: " \o product.sku,
            "Type: " \o product.arm_type,
            IF product.size_max_inch # "" THEN "Size: " \o product.size_max_inch \o " inch" ELSE "",
            IF product.vesa_options # <<>> THEN "VESA: " \o Join(", ", product.vesa_options) ELSE "",
            IF product.weight_per_arm_kg # "" THEN "Weight: " \o product.weight_per_arm_kg \o " kg" ELSE "",
            IF product.desk_thickness_mm # "" THEN "Desk: " \o product.desk_thickness_mm \o " mm" ELSE "",
            IF product.compatibility_notes # "" THEN "Notes: " \o product.compatibility_notes ELSE "",
            IF product.includes # <<>> THEN "Includes: " \o Join(", ", product.includes) ELSE "" >>
    IN  Join(" ", NonEmptyParts(doc_parts))

KnowledgeMetadata(item) ==
    [id |-> item.id, title |-> item.title, url_label |-> item.url_label,
     url_href |-> item.url_href, image_url |-> item.image_url,
     tags |-> JsonDumps(item.tags), type |-> "knowledge"]

ProductMetadata(product) ==
    [sku |-> product.sku, name |-> product.name, arm_type |-> product.arm_type,
     size_max_inch |-> product.size_max_inch,
     vesa_options |-> JsonDumps(product.vesa_options),
     weight_per_arm_kg |-> product.weight_per_arm_kg,
     desk_thickness_mm |-> product.desk_thickness_mm,
     compatibility_notes |-> product.compatibility_notes,
     url |-> product.url, image_url |-> product.image_url,
     includes |-> JsonDumps(product.includes), type |-> "product"]

\* the (id, document, metadata) triple populate_knowledge_base appends for one item
KnowledgeEntry(item) ==
    [id |-> item.id, document |-> _create_knowledge_document(item),
     metadata |-> KnowledgeMetadata(item)]

\* the (id, document, metadata) triple populate_products appends for one product
ProductEntry(product) ==
    [id |-> product.sku, document |-> _create_product_document(product),
     metadata |-> ProductMetadata(product)]

----------------------------------------------------------------------------
(* The index library behind VectorDB.client (chromadb), as VectorDB uses it. *)
(* A collection is [exists, entries]; entries is a set of                   *)
(* [id, document, metadata] with at most one entry per id.                  *)

CollectionNames == {"knowledge_base", "products"}

NoCollection == [exists |-> FALSE, entries |-> {}]

Ids(entries) == {e.id : e \in entries}

\* client.get_collection(name) raises when the collection does not exist, and
\* setup_collections then creates it empty: either way the name is bound afterwards
GetOrCreate(coll) == [exists |-> TRUE, entries |-> coll.entries]

\* collection.count()
Count(coll) == Cardinality(coll.entries)

\* ids occurring more than once in a list handed to collection.add
HasDuplicateIds(entryList) ==
    \E i, j \in DOMAIN entryList : i < j /\ entryList[i].id = entryList[j].id

\* the last entry of the list for each id
LastPerId(entryList) ==
    {entryList[i] : i \in {i \in DOMAIN entryList :
                              \A j \in DOMAIN entryList : j > i => entryList[j].id # entryList[i].id}}

\* collection.add(documents, metadatas, ids): the outcomes the index library can
\* produce. An empty batch is refused with an error or is a no-op, and a batch
\* holding one id twice is refused or keeps the last entry, depending on the
\* library version; ids the collection already holds are left as they are.
AddOutcomes(coll, entryList) ==
    LET fresh(es) == {e \in es : e.id \notin Ids(coll.entries)}
        added(es) == [raised |-> FALSE, error |-> "",
                      coll |-> [coll EXCEPT !.entries = @ \cup fresh(es)]]
        refused(msg) == [raised |-> TRUE, error |-> msg, coll |-> coll]
    IN  IF entryList = <<>>
        THEN {refused("Expected IDs to be a non-empty list"), added({})}
        ELSE IF HasDuplicateIds(entryList)
        THEN {refused("Expected IDs to be unique"), added(LastPerId(entryList))}
        ELSE {added(Range(entryList))}

DistanceLevels == 4

\* the embedding distance between a query text and a document text: a fixed
\* function of the two texts
Distance(query, document) == (3 * Len(query) + Len(document)) % DistanceLevels

\* collection.query(query_texts=[query], n_results=n): the result lists the index
\* can return: the min(n, count) nearest entries, closest first, ties in any order
QueryOutcomes(coll, query, n) ==
    LET m == Min(n, Count(coll))
        d(e) == Distance(query, e.document)
    IN  {r \in [1..m -> coll.entries] :
            /\ \A i, j \in 1..m : i < j => r[i] # r[j] /\ d(r[i]) <= d(r[j])
            /\ \A e \in coll.entries : e \notin Range(r) => \A i \in 1..m : d(r[i]) <= d(e)}

\* results["metadatas"][0][i], results["distances"][0][i], results["documents"][0][i]
QueryRow(query, e) ==
    [metadata |-> e.metadata, distance |-> Distance(query, e.document), document |-> e.document]

----------------------------------------------------------------------------
(* VectorDB operations. Each takes the VectorDB state v = [client,          *)
(* knowledge_collection, products_collection, inserted] and gives the set   *)
(* of outcomes [vdb, raised, error, value] the call can have.               *)

VDB == [client |-> client, knowledge_collection |-> knowledge_collection,
        products_collection |-> products_collection, inserted |-> inserted]

Returns(v, value) == [vdb |-> v, raised |-> FALSE, error |-> "", value |-> value]
Raises(v, msg) == [vdb |-> v, raised |-> TRUE, error |-> msg, value |-> <<>>]

\* a setup that creates both collections anew
setup_collections_recreating(v) ==
    [v EXCEPT !.client = [name \in CollectionNames |-> [exists |-> TRUE, entries |-> {}]],
              !.knowledge_collection = TRUE,
              !.products_collection = TRUE]

setup_collections(v) ==
    [v EXCEPT !.client = [name \in CollectionNames |-> GetOrCreate(v.client[name])],
              !.knowledge_collection = TRUE,
              !.products_collection = TRUE]

\* a populate that never skips: the existing-count check dropped
AlreadyPopulated_unchecked(existing_count) == FALSE

\* "if existing_count > 0: ... return"
AlreadyPopulated(existing_count) == existing_count > 0

\* the entry lists the populate calls build from their records
KnowledgeEntries(knowledge_items) ==
    [i \in DOMAIN knowledge_items |-> KnowledgeEntry(knowledge_items[i])]

ProductEntries(product_list) ==
    [i \in DOMAIN product_list |-> ProductEntry(product_list[i])]

populate_knowledge_base(v, knowledge_items) ==
    LET v1 == IF ~v.knowledge_collection THEN setup_collections(v) ELSE v
        coll == v1.client.knowledge_base
    IN  IF AlreadyPopulated(Count(coll))
        THEN {Returns(v1, <<>>)}
        ELSE {IF out.raised
              THEN Raises(v1, out.error)
              ELSE Returns([v1 EXCEPT !.client.knowledge_base = out.coll,
                                      !.inserted.knowledge_base =
                                          @ \cup (out.coll.entries \ coll.entries)],
                           <<>>)
              : out \in AddOutcomes(coll, KnowledgeEntries(knowledge_items))}

\* a populate_products that adds its entries to the knowledge collection
populate_products_wrong_collection(v, product_list) ==
    LET v1 == IF ~v.products_collection THEN setup_collections(v) ELSE v
        coll == v1.client.knowledge_base
    IN  IF AlreadyPopulated(Count(v1.client.products))
        THEN {Returns(v1, <<>>)}
        ELSE {IF out.raised
              THEN Raises(v1, out.error)
              ELSE Returns([v1 EXCEPT !.client.knowledge_base = out.coll,
                                      !.inserted.products =
                                          @ \cup (out.coll.entries \ coll.entries)],
                           <<>>)
              : out \in AddOutcomes(coll, ProductEntries(product_list))}

populate_products(v, product_list) ==
    LET v1 == IF ~v.products_collection THEN setup_collections(v) ELSE v
        coll == v1.client.products
    IN  IF AlreadyPopulated(Count(coll))
        THEN {Returns(v1, <<>>)}
        ELSE {IF out.raised
              THEN Raises(v1, out.error)
              ELSE Returns([v1 EXCEPT !.client.products = out.coll,
                                      !.inserted.products =
                                          @ \cup (out.coll.entries \ coll.entries)],
                           <<>>)
              : out \in AddOutcomes(coll, ProductEntries(product_list))}

\* the result mapping search_knowledge builds from one row of the query result
KnowledgeResult(row) ==
    [id |-> row.metadata.id, title |-> row.metadata.title,
     url_label |-> row.metadata.url_label, url_href |-> row.metadata.url_href,
     image_url |-> row.metadata.image_url, tags |-> JsonLoads(row.metadata.tags),
     distance |-> row.distance, document |-> row.document]

\* the result mapping search_products builds from one row of the query result
ProductResult(row) ==
    [sku |-> row.metadata.sku, name |-> row.metadata.name,
     arm_type |-> row.metadata.arm_type, size_max_inch |-> row.metadata.size_max_inch,
     vesa_options |-> JsonLoads(row.metadata.vesa_options),
     weight_per_arm_kg |-> row.metadata.weight_per_arm_kg,
     desk_thickness_mm |-> row.metadata.desk_thickness_mm,
     compatibility_notes |-> row.metadata.compatibility_notes,
     url |-> row.metadata.url, image_url |-> row.metadata.image_url,
     includes |-> JsonLoads(row.metadata.includes),
     distance |-> row.distance, document |-> row.document]

\* formatted_results built in the reverse of the rows' order
FormatKnowledgeResults_reversed(rows) ==
    [i \in DOMAIN rows |-> KnowledgeResult(rows[Len(rows) + 1 - i])]

\* formatted_results of search_knowledge: one mapping per row, in the rows' order
FormatKnowledgeResults(rows) == [i \in DOMAIN rows |-> KnowledgeResult(rows[i])]

\* formatted_results of search_products: one mapping per row, in the rows' order
FormatProductResults(rows) == [i \in DOMAIN rows |-> ProductResult(rows[i])]

\* the n_results the search methods hand to collection.query
QueryLimit(n_results) == n_results

\* a search_knowledge that lets the query of an empty collection fail
search_knowledge_raising_on_empty(v, query, n_results) ==
    LET v1 == IF ~v.knowledge_collection THEN setup_collections(v) ELSE v
        coll == v1.client.knowledge_base
    IN  IF QueryLimit(n_results) <= 0 \/ coll.entries = {}
        THEN {Raises(v1, "Number of requested results cannot be negative, or zero")}
        ELSE {Returns(v1, FormatKnowledgeResults([i \in DOMAIN r |-> QueryRow(query, r[i])]))
              : r \in QueryOutcomes(coll, query, QueryLimit(n_results))}

search_knowledge(v, query, n_results) ==
    LET v1 == IF ~v.knowledge_collection THEN setup_collections(v) ELSE v
        coll == v1.client.knowledge_base
    IN  IF QueryLimit(n_results) <= 0
        THEN {Raises(v1, "Number of requested results cannot be negative, or zero")}
        ELSE {Returns(v1, FormatKnowledgeResults([i \in DOMAIN r |-> QueryRow(query, r[i])]))
              : r \in QueryOutcomes(coll, query, QueryLimit(n_results))}

\* a search_products that lets the query of an empty collection fail
vdb_search_products_raising_on_empty(v, query, n_results) ==
    LET v1 == IF ~v.products_collection THEN setup_collections(v) ELSE v
        coll == v1.client.products
    IN  IF QueryLimit(n_results) <= 0 \/ coll.entries = {}
        THEN {Raises(v1, "Number of requested results cannot be negative, or zero")}
        ELSE {Returns(v1, FormatProductResults([i \in DOMAIN r |-> QueryRow(query, r[i])]))
              : r \in QueryOutcomes(coll, query, QueryLimit(n_results))}

vdb_search_products(v, query, n_results) ==
    LET v1 == IF ~v.products_collection THEN setup_collections(v) ELSE v
        coll == v1.client.products
    IN  IF QueryLimit(n_results) <= 0
        THEN {Raises(v1, "Number of requested results cannot be negative, or zero")}
        ELSE {Returns(v1, FormatProductResults([i \in DOMAIN r |-> QueryRow(query, r[i])]))
              : r \in QueryOutcomes(coll, query, QueryLimit(n_results))}

\* populate_products runs only when populate_knowledge_base returned
\* an initialization that populates the knowledge collection only
initialize_with_data_knowledge_only(v, data_processor) ==
    populate_knowledge_base(setup_collections(v), data_processor.knowledge_base)

initialize_with_data(v, data_processor) ==
    UNION {IF o1.raised THEN {o1}
           ELSE populate_products(o1.vdb, data_processor.products)
           : o1 \in populate_knowledge_base(setup_collections(v),
                                            data_processor.knowledge_base)}

\* a reset that deletes the knowledge collection only
reset_database_knowledge_only(v) ==
    [v EXCEPT !.client.knowledge_base = NoCollection,
              !.knowledge_collection = FALSE,
              !.products_collection = FALSE,
              !.inserted.knowledge_base = {}]

\* both collections are deleted (a missing one is skipped) and both handles dropped
reset_database(v) ==
    [v EXCEPT !.client = [name \in CollectionNames |-> NoCollection],
              !.knowledge_collection = FALSE,
              !.products_collection = FALSE,
              !.inserted = [name \in CollectionNames |-> {}]]

----------------------------------------------------------------------------
(* DataProcessor: the tables read from the knowledge and product sources.   *)
(* A source table is [columns, rows]: the column names in file order and    *)
(* one function column -> cell per row. A cell is a tagged value.           *)

StrCell(s) == [t |-> "str", v |-> s]
BoolCell(b) == [t |-> "bool", v |-> b]
\* a numeric cell, given by the text str() makes of it
NumCell(s) == [t |-> "num", v |-> s]
NaN == [t |-> "nan"]

\* pd.notna(cell)
notna(cell) == cell.t # "nan"

\* str(value) of a cell value
PyStr(cell) ==
    IF cell.t = "str" THEN cell.v
    ELSE IF cell.t = "bool" THEN (IF cell.v THEN "True" ELSE "False")
    ELSE IF cell.t = "num" THEN cell.v
    ELSE "nan"

\* the text after a column prefix in the sources' repeated columns
ColumnSuffixes == {"0", "1", "2", "label", "href"}

\* a test that finds the prefix after a leading section of the name as well
StartsWith_after_section(col, prefix) ==
    \E head \in {"", "meta/"}, rest \in ColumnSuffixes \cup {""} : col = head \o prefix \o rest

\* col.startswith(prefix)
StartsWith(col, prefix) == \E rest \in ColumnSuffixes \cup {""} : col = prefix \o rest

\* the non-null cells of the columns with the prefix, in column order
RECURSIVE PrefixedCells(_, _, _)
PrefixedCells(columns, row, prefix) ==
    IF columns = <<>> THEN <<>>
    ELSE (IF StartsWith(columns[1], prefix) /\ notna(row[columns[1]])
          THEN <<row[columns[1]]>> ELSE <<>>)
         \o PrefixedCells(Tail(columns), row, prefix)

\* a row.get(column, '') that hands on an empty cell
OptionalCell_keeping_null(row, column) ==
    IF column \in DOMAIN row THEN row[column] ELSE StrCell("")

\* row.get(column, '') if pd.notna(row.get(column)) else ''
OptionalCell(row, column) ==
    IF column \in DOMAIN row /\ notna(row[column]) THEN row[column] ELSE StrCell("")

\* safe_get(column) of load_products
safe_get(row, column) == PyStr(OptionalCell(row, column))

\* the model classes accept a str field only from a str value
IsStr(cell) == cell.t = "str"

\* one row of the knowledge source: the KnowledgeItem, or the failure it raises
KnowledgeRow(columns, row) ==
    LET tags == PrefixedCells(columns, row, "tags/")
        url_label == OptionalCell(row, "urls/0/label")
        url_href == OptionalCell(row, "urls/0/href")
        image_url == OptionalCell(row, "images/0")
    IN  IF ~({"id", "title", "content"} \subseteq DOMAIN row)
        THEN [raised |-> TRUE, error |-> "KeyError"]
        ELSE IF ~(/\ IsStr(row["id"]) /\ IsStr(row["title"]) /\ IsStr(row["content"])
                  /\ IsStr(url_label) /\ IsStr(url_href) /\ IsStr(image_url)
                  /\ \A i \in DOMAIN tags : IsStr(tags[i]))
        THEN [raised |-> TRUE, error |-> "ValidationError"]
        ELSE [raised |-> FALSE, error |-> "",
              item |-> [id |-> row["id"].v, title |-> row["title"].v,
                        content |-> row["content"].v, url_label |-> url_label.v,
                        url_href |-> url_href.v, image_url |-> image_url.v,
                        tags |-> [i \in DOMAIN tags |-> tags[i].v]]]

\* one row of the product source: the Product, or the failure it raises
ProductRow(columns, row) ==
    LET vesa_options == PrefixedCells(columns, row, "specs/vesa/")
        includes == PrefixedCells(columns, row, "specs/includes/")
    IN  IF ~({"sku", "name"} \subseteq DOMAIN row)
        THEN [raised |-> TRUE, error |-> "KeyError"]
        ELSE IF ~(/\ IsStr(row["sku"]) /\ IsStr(row["name"])
                  /\ \A i \in DOMAIN vesa_options : IsStr(vesa_options[i])
                  /\ \A i \in DOMAIN includes : IsStr(includes[i]))
        THEN [raised |-> TRUE, error |-> "ValidationError"]
        ELSE [raised |-> FALSE, error |-> "",
              item |-> [sku |-> row["sku"].v, name |-> row["name"].v,
                        arm_type |-> safe_get(row, "specs/arm_type"),
                        size_max_inch |-> safe_get(row, "specs/size_max_inch"),
                        vesa_options |-> [i \in DOMAIN vesa_options |-> vesa_options[i].v],
                        weight_per_arm_kg |-> safe_get(row, "specs/weight_per_arm_kg"),
                        desk_thickness_mm |-> safe_get(row, "specs/desk_thickness_mm"),
                        rotation |-> safe_get(row, "specs/rotation"),
                        tilt |-> safe_get(row, "specs/tilt"),
                        swivel |-> safe_get(row, "specs/swivel"),
                        usb_hub |-> (safe_get(row, "specs/usb_hub") # ""),
                        compatibility_notes |-> safe_get(row, "compatibility_notes"),
                        url |-> safe_get(row, "url"),
                        image_url |-> safe_get(row, "images/0"),
                        reach_mm |-> safe_get(row, "specs/reach_mm"),
                        tray_size_inch |-> safe_get(row, "specs/tray_size_inch"),
                        includes |-> [i \in DOMAIN includes |-> includes[i].v]]]

\* a load that keeps the rows read before the first failure
LoadRows_keeping_read_rows(parsed, old_table) ==
    IF \E i \in DOMAIN parsed : parsed[i].raised
    THEN LET first == CHOOSE i \in DOMAIN parsed :
                          parsed[i].raised /\ \A j \in 1..(i-1) : ~parsed[j].raised
         IN  [raised |-> TRUE, error |-> parsed[first].error,
              table |-> [i \in 1..(first - 1) |-> parsed[i].item]]
    ELSE [raised |-> FALSE, error |-> "", table |-> [i \in DOMAIN parsed |-> parsed[i].item]]

\* the rows' records in row order, or the first failure: the table is assigned
\* only after the loop over all rows has ended
LoadRows(parsed, old_table) ==
    IF \E i \in DOMAIN parsed : parsed[i].raised
    THEN LET first == CHOOSE i \in DOMAIN parsed :
                          parsed[i].raised /\ \A j \in 1..(i-1) : ~parsed[j].raised
         IN  [raised |-> TRUE, error |-> parsed[first].error, table |-> old_table]
    ELSE [raised |-> FALSE, error |-> "", table |-> [i \in DOMAIN parsed |-> parsed[i].item]]

load_knowledge_base(source, old_table) ==
    LoadRows([i \in DOMAIN source.rows |-> KnowledgeRow(source.columns, source.rows[i])],
             old_table)

load_products(source, old_table) ==
    LoadRows([i \in DOMAIN source.rows |-> ProductRow(source.columns, source.rows[i])],
             old_table)

RECURSIVE get_knowledge_by_id(_, _)
get_knowledge_by_id(table, knowledge_id) ==
    IF table = <<>> THEN <<>>
    ELSE IF table[1].id = knowledge_id THEN <<table[1]>>
    ELSE get_knowledge_by_id(Tail(table), knowledge_id)

RECURSIVE get_product_by_sku(_, _)
get_product_by_sku(table, sku) ==
    IF table = <<>> THEN <<>>
    ELSE IF table[1].sku = sku THEN <<table[1]>>
    ELSE get_product_by_sku(Tail(table), sku)

----------------------------------------------------------------------------
(* Sample sources: the table a list of sample records is exported to. An   *)
(* empty field is an empty cell, which the reader gives as NaN.            *)

CellOf(s) == IF s = "" THEN NaN ELSE StrCell(s)

ListCell(list, i) == IF i <= Len(list) THEN StrCell(list[i]) ELSE NaN

KnowledgeColumns ==
    <<"id", "title", "content", "urls/0/label", "urls/0/href", "images/0", "tags/0", "tags/1">>

KnowledgeSourceRow(k) ==
    ("id" :> StrCell(k.id)) @@ ("title" :> StrCell(k.title)) @@ ("content" :> StrCell(k.content))
    @@ ("urls/0/label" :> CellOf(k.url_label)) @@ ("urls/0/href" :> CellOf(k.url_href))
    @@ ("images/0" :> CellOf(k.image_url))
    @@ ("tags/0" :> ListCell(k.tags, 1)) @@ ("tags/1" :> ListCell(k.tags, 2))

KnowledgeSource(list) ==
    [columns |-> KnowledgeColumns, rows |-> [i \in DOMAIN list |-> KnowledgeSourceRow(list[i])]]

ProductColumns ==
    <<"sku", "name", "specs/arm_type", "specs/size_max_inch", "specs/vesa/0", "specs/vesa/1",
      "specs/weight_per_arm_kg", "specs/desk_thickness_mm", "specs/rotation", "specs/tilt",
      "specs/swivel", "specs/usb_hub", "compatibility_notes", "url", "images/0",
      "specs/reach_mm", "specs/tray_size_inch", "specs/includes/0", "specs/includes/1">>

ProductSourceRow(p) ==
    ("sku" :> StrCell(p.sku)) @@ ("name" :> StrCell(p.name))
    @@ ("specs/arm_type" :> CellOf(p.arm_type)) @@ ("specs/size_max_inch" :> CellOf(p.size_max_inch))
    @@ ("specs/vesa/0" :> ListCell(p.vesa_options, 1)) @@ ("specs/vesa/1" :> ListCell(p.vesa_options, 2))
    @@ ("specs/weight_per_arm_kg" :> CellOf(p.weight_per_arm_kg))
    @@ ("specs/desk_thickness_mm" :> CellOf(p.desk_thickness_mm))
    @@ ("specs/rotation" :> CellOf(p.rotation)) @@ ("specs/tilt" :> CellOf(p.tilt))
    @@ ("specs/swivel" :> CellOf(p.swivel))
    @@ ("specs/usb_hub" :> (IF p.usb_hub THEN BoolCell(TRUE) ELSE NaN))
    @@ ("compatibility_notes" :> CellOf(p.compatibility_notes)) @@ ("url" :> CellOf(p.url))
    @@ ("images/0" :> CellOf(p.image_url)) @@ ("specs/reach_mm" :> CellOf(p.reach_mm))
    @@ ("specs/tray_size_inch" :> CellOf(p.tray_size_inch))
    @@ ("specs/includes/0" :> ListCell(p.includes, 1)) @@ ("specs/includes/1" :> ListCell(p.includes, 2))

ProductSource(list) ==
    [columns |-> ProductColumns, rows |-> [i \in DOMAIN list |-> ProductSourceRow(list[i])]]

\* the lists of distinct sample records a source file holds
KnowledgeSources == {KnowledgeSource(l) : l \in {<<>>, <<K1, K2>>, <<K1b, K2>>}}
ProductSources == {ProductSource(l) : l \in {<<>>, <<P1, P2>>, <<P1b, P2>>}}

\* the source without one of its columns
DropColumn(source, column) ==
    [columns |-> SelectSeq(source.columns, LAMBDA c : c # column),
     rows |-> [i \in DOMAIN source.rows |->
                 [c \in DOMAIN source.rows[i] \ {column} |-> source.rows[i][c]]]]

\* the source with its columns in the opposite order
ReverseColumns(source) ==
    [source EXCEPT !.columns = [i \in DOMAIN source.columns |->
                                    source.columns[Len(source.columns) + 1 - i]]]

\* the source with another cell in one column of one row
WithCell(source, i, column, cell) == [source EXCEPT !.rows[i][column] = cell]

\* the source with one more column in front, holding the cell in every row
AddColumn(source, column, cell) ==
    [columns |-> <<column>> \o source.columns,
     rows |-> [i \in DOMAIN source.rows |-> (column :> cell) @@ source.rows[i]]]

\* further knowledge sources: without the id column, without a list column
\* or all of them, with an empty cell before a filled one, with the columns
\* in another order, without an optional column
KnowledgeSourceVariants ==
    LET source == KnowledgeSource(<<K1b, K2>>)
    IN  {DropColumn(source, "id"),
         DropColumn(KnowledgeSource(<<K1>>), "id"),
         DropColumn(source, "tags/0"),
         DropColumn(DropColumn(source, "tags/0"), "tags/1"),
         WithCell(source, 2, "tags/0", NaN),
         ReverseColumns(source),
         DropColumn(DropColumn(source, "urls/0/label"), "images/0"),
         AddColumn(ReverseColumns(source), "meta/tags/0", StrCell("internal")),
         WithCell(source, 1, "id", NumCell("1001")),
         WithCell(source, 2, "tags/1", NumCell("2024"))}

\* further product sources, likewise
ProductSourceVariants ==
    LET source == ProductSource(<<P1, P2>>)
    IN  {DropColumn(source, "sku"),
         DropColumn(source, "specs/vesa/0"),
         DropColumn(DropColumn(source, "specs/includes/0"), "specs/includes/1"),
         WithCell(source, 2, "specs/includes/0", NaN),
         ReverseColumns(source),
         DropColumn(DropColumn(DropColumn(source, "specs/usb_hub"), "url"), "specs/tilt"),
         AddColumn(source, "meta/specs/includes/0", StrCell("manual")),
         WithCell(WithCell(source, 1, "specs/size_max_inch", NumCell("27.0")),
                  2, "specs/reach_mm", NumCell("450")),
         WithCell(source, 1, "specs/vesa/0", NumCell("100")),
         WithCell(source, 2, "sku", NumCell("20032")),
         WithCell(source, 1, "specs/usb_hub", BoolCell(TRUE)),
         WithCell(source, 1, "specs/usb_hub", BoolCell(FALSE))}

\* str(i) of the small integers the messages number their lines with
Str(i) == <<"0", "1", "2", "3", "4", "5", "6", "7", "8", "9">>[i + 1]

----------------------------------------------------------------------------
(* JTCGAgentFunctions: the search handlers. The localized message texts    *)
(* of the source are written here in English.                              *)

MsgKnowledgeNotFound == "Sorry, no related information found; please contact customer service."
MsgKnowledgeError == "Search failed; try again later or contact customer service."
MsgProductsNotFound == "Sorry, no matching product found; please tell us size, VESA or use."
MsgProductsError == "Product search failed; try again later or contact customer service."

\* x if x else ""
OrEmpty(x) == IF x # "" THEN x ELSE ""

\* formatted_results of search_knowledge_base
KnowledgeResultItem(result) ==
    [title |-> result.title, relevance_score |-> 1 - result.distance,
     url |-> OrEmpty(result.url_href), url_label |-> OrEmpty(result.url_label),
     image_url |-> OrEmpty(result.image_url), tags |-> result.tags]

\* response_parts of search_knowledge_base, joined
KnowledgeMessage(kb_item) ==
    IF kb_item = <<>> THEN ""
    ELSE LET item == kb_item[1]
         IN  item.content
             \o (IF item.url_href # ""
                 THEN "\n\nSee: ["
                      \o (IF item.url_label # "" THEN item.url_label ELSE "Details")
                      \o "](" \o item.url_href \o ")"
                 ELSE "")
             \o (IF item.image_url # "" THEN "\n\nImage: " \o item.image_url ELSE "")

\* a retrieval query as a handler hands it to the store
RetrievalQuery(collection, query, n_results) ==
    [collection |-> collection, query_texts |-> query, n_results |-> n_results]

\* a search_knowledge_base that queries a second time when the query raised
search_knowledge_base_retrying(v, table, query, max_results) ==
    {[vdb |-> o.vdb,
      queries |-> IF o.raised
                  THEN <<RetrievalQuery("knowledge_base", query, max_results),
                         RetrievalQuery("knowledge_base", query, max_results)>>
                  ELSE <<RetrievalQuery("knowledge_base", query, max_results)>>,
      value |->
        IF o.raised
        THEN [success |-> FALSE, message |-> MsgKnowledgeError, error |-> o.error,
              results |-> <<>>]
        ELSE [success |-> o.value # <<>>, message |-> MsgKnowledgeNotFound,
              results |-> <<>>]]
     : o \in search_knowledge(v, query, max_results)}

\* the handler's outcome: [vdb, queries, value] for each outcome of the one
\* store query, queries being the retrieval queries the invocation issued
search_knowledge_base(v, table, query, max_results) ==
    {[vdb |-> o.vdb,
      queries |-> <<RetrievalQuery("knowledge_base", query, max_results)>>,
      value |->
        IF o.raised
        THEN [success |-> FALSE, message |-> MsgKnowledgeError, error |-> o.error,
              results |-> <<>>]
        ELSE IF o.value = <<>>
        THEN [success |-> FALSE, message |-> MsgKnowledgeNotFound, results |-> <<>>]
        ELSE LET results == o.value
                 best_match == results[1]
                 kb_item == get_knowledge_by_id(table, best_match.id)
             IN  [success |-> TRUE,
                  message |-> KnowledgeMessage(kb_item),
                  results |-> [i \in DOMAIN results |-> KnowledgeResultItem(results[i])],
                  primary_source |-> [title |-> best_match.title, url |-> best_match.url_href,
                                      url_label |-> best_match.url_label]]]
     : o \in search_knowledge(v, query, max_results)}

\* spec_parts: "key: value" of every entry with a truthy value, in the mapping's order
RECURSIVE SpecParts(_)
SpecParts(specifications) ==
    IF specifications = <<>> THEN <<>>
    ELSE (IF specifications[1].value # ""
          THEN <<specifications[1].key \o ": " \o specifications[1].value>> ELSE <<>>)
         \o SpecParts(Tail(specifications))

\* None, and null of a JSON file
JNull == [t |-> "null"]

\* a specifications dict, its entries in the mapping's order
Specifications(items) == [items |-> items]

\* the truth value of the specifications argument: neither None nor an empty dict
GivenSpecifications(specifications) ==
    "items" \in DOMAIN specifications /\ specifications.items # <<>>

\* an enhanced_query that appends the parts without the separating space
EnhancedQuery_without_separator(query, specifications) ==
    IF GivenSpecifications(specifications) /\ SpecParts(specifications.items) # <<>>
    THEN query \o Join(" ", SpecParts(specifications.items))
    ELSE query

\* enhanced_query of search_products
EnhancedQuery(query, specifications) ==
    IF GivenSpecifications(specifications) /\ SpecParts(specifications.items) # <<>>
    THEN query \o " " \o Join(" ", SpecParts(specifications.items))
    ELSE query

\* formatted_products of search_products
ProductInfo(result) ==
    [sku |-> result.sku, name |-> result.name, arm_type |-> result.arm_type,
     max_size |-> result.size_max_inch, vesa_options |-> result.vesa_options,
     weight_capacity |-> result.weight_per_arm_kg, desk_thickness |-> result.desk_thickness_mm,
     compatibility_notes |-> result.compatibility_notes, url |-> result.url,
     image_url |-> result.image_url, includes |-> result.includes,
     relevance_score |-> 1 - result.distance]

\* the message lines of the i-th recommended product
ProductLines(i, product) ==
    LET specs == NonEmptyParts(<<
            IF product.max_size # "" THEN "up to " \o product.max_size \o " inch" ELSE "",
            IF product.vesa_options # <<>> THEN "VESA: " \o Join(", ", product.vesa_options) ELSE "",
            IF product.weight_capacity # "" THEN "load: " \o product.weight_capacity \o " kg" ELSE "">>)
    IN  "\n" \o Str(i) \o ". **" \o product.name \o "** (" \o product.sku \o ")"
        \o (IF specs # <<>> THEN " - " \o Join(", ", specs) ELSE "")
        \o (IF product.compatibility_notes # ""
            THEN "\n   Note: " \o product.compatibility_notes ELSE "")
        \o (IF product.url # "" THEN "\n   [Details](" \o product.url \o ")" ELSE "")
        \o "\n"

\* response_parts of search_products, joined: the top 3 products
ProductsMessage(formatted_products) ==
    LET top == SubSeq(formatted_products, 1, Min(3, Len(formatted_products)))
    IN  "Recommended products:\n"
        \o Join("", [i \in DOMAIN top |-> ProductLines(i, top[i])])
        \o "\nFor more advice tell us your screen size, desk thickness or needs."

search_products(v, query, specifications, max_results) ==
    {[vdb |-> o.vdb,
      queries |-> <<RetrievalQuery("products", EnhancedQuery(query, specifications),
                                   max_results)>>,
      value |->
        IF o.raised
        THEN [success |-> FALSE, message |-> MsgProductsError, error |-> o.error,
              products |-> <<>>]
        ELSE IF o.value = <<>>
        THEN [success |-> FALSE, message |-> MsgProductsNotFound, products |-> <<>>]
        ELSE LET results == o.value
                 formatted_products == [i \in DOMAIN results |-> ProductInfo(results[i])]
             IN  [success |-> TRUE,
                  message |-> ProductsMessage(formatted_products),
                  products |-> formatted_products,
                  total_found |-> Len(results)]]
     : o \in vdb_search_products(v, EnhancedQuery(query, specifications), max_results)}

----------------------------------------------------------------------------
(* The retrieval store and the search handlers as a state machine *)

EmptyLedger == <<>>

NoCall == [raised |-> FALSE, error |-> "", value |-> <<>>]

\* what an earlier run of the program can have left in the persisted index
PersistedCollections(entrySets) ==
    {[exists |-> ex, entries |-> es] : ex \in BOOLEAN, es \in entrySets} \ {[exists |-> FALSE, entries |-> es] : es \in entrySets \ {{}}}

PersistedIndexes ==
    [knowledge_base : PersistedCollections({{}, {KnowledgeEntry(K1), KnowledgeEntry(K2)}}),
     products : PersistedCollections({{}, {ProductEntry(P1), ProductEntry(P2)}})]

\* VectorDB() and DataProcessor() constructed over an index directory
Init ==
    /\ client \in PersistedIndexes
    /\ knowledge_collection = FALSE
    /\ products_collection = FALSE
    /\ knowledge_base = <<>>
    /\ products = <<>>
    /\ orders_db = EmptyLedger
    /\ inserted = [name \in CollectionNames |-> client[name].entries]
    /\ call = [op |-> "init"]
    /\ ret = NoCall
    /\ transport_calls = <<>>
    /\ api_payloads = <<>>

\* the VectorDB state after a call
SetVDB(v) ==
    /\ client' = v.client
    /\ knowledge_collection' = v.knowledge_collection
    /\ products_collection' = v.products_collection
    /\ inserted' = v.inserted

Outcome(o) ==
    /\ SetVDB(o.vdb)
    /\ ret' = [raised |-> o.raised, error |-> o.error, value |-> o.value]

SetupCollections ==
    /\ SetVDB(setup_collections(VDB))
    /\ call' = [op |-> "setup_collections"]
    /\ ret' = NoCall
    /\ UNCHANGED <<tableVars, handoverVars>>

PopulateKnowledgeBaseWith(lists) ==
    \E knowledge_items \in lists :
        \E o \in populate_knowledge_base(VDB, knowledge_items) :
            /\ Outcome(o)
            /\ call' = [op |-> "populate_knowledge_base", records |-> knowledge_items]
            /\ UNCHANGED <<tableVars, handoverVars>>

PopulateProductsWith(lists) ==
    \E product_list \in lists :
        \E o \in populate_products(VDB, product_list) :
            /\ Outcome(o)
            /\ call' = [op |-> "populate_products", records |-> product_list]
            /\ UNCHANGED <<tableVars, handoverVars>>

PopulateKnowledgeBase == PopulateKnowledgeBaseWith(KnowledgeLists)

PopulateProducts == PopulateProductsWith(ProductLists)

SearchKnowledge ==
    \E query \in Queries, n_results \in 0..MaxResults :
        \E o \in search_knowledge(VDB, query, n_results) :
            /\ Outcome(o)
            /\ call' = [op |-> "search_knowledge", query |-> query, n |-> n_results]
            /\ UNCHANGED <<tableVars, handoverVars>>

SearchProducts ==
    \E query \in Queries, n_results \in 0..MaxResults :
        \E o \in vdb_search_products(VDB, query, n_results) :
            /\ Outcome(o)
            /\ call' = [op |-> "search_products", query |-> query, n |-> n_results]
            /\ UNCHANGED <<tableVars, handoverVars>>

InitializeWithData ==
    \E o \in initialize_with_data(VDB, [knowledge_base |-> knowledge_base,
                                        products |-> products]) :
        /\ Outcome(o)
        /\ call' = [op |-> "initialize_with_data"]
        /\ UNCHANGED <<tableVars, handoverVars>>

ResetDatabase ==
    /\ SetVDB(reset_database(VDB))
    /\ call' = [op |-> "reset_database"]
    /\ ret' = NoCall
    /\ UNCHANGED <<tableVars, handoverVars>>

LoadKnowledgeBaseFrom(sources) ==
    \E source \in sources :
        LET o == load_knowledge_base(source, knowledge_base)
        IN  /\ knowledge_base' = o.table
            /\ call' = [op |-> "load_knowledge_base", source |-> source]
            /\ ret' = [raised |-> o.raised, error |-> o.error, value |-> <<>>]
            /\ UNCHANGED <<products, orders_db, storeVars, handoverVars>>

LoadProductsFrom(sources) ==
    \E source \in sources :
        LET o == load_products(source, products)
        IN  /\ products' = o.table
            /\ call' = [op |-> "load_products", source |-> source]
            /\ ret' = [raised |-> o.raised, error |-> o.error, value |-> <<>>]
            /\ UNCHANGED <<knowledge_base, orders_db, storeVars, handoverVars>>

LoadKnowledgeBase == LoadKnowledgeBaseFrom(KnowledgeSources)

LoadProducts == LoadProductsFrom(ProductSources)

\* the specifications mappings a caller hands to the product-search handler
SpecificationSamples ==
    {JNull, Specifications(<<>>),
     Specifications(<<[key |-> "size", value |-> "32"]>>),
     Specifications(<<[key |-> "vesa", value |-> ""], [key |-> "size", value |-> "27"]>>),
     Specifications(<<[key |-> "vesa", value |-> ""], [key |-> "size", value |-> ""]>>),
     Specifications(<<[key |-> "vesa", value |-> "100x100"], [key |-> "size", value |-> "32"]>>)}

SearchKnowledgeBaseHandlerWith(queries, limits) ==
    \E query \in queries, max_results \in limits :
        \E o \in search_knowledge_base(VDB, knowledge_base, query, max_results) :
            /\ SetVDB(o.vdb)
            /\ ret' = [raised |-> FALSE, error |-> "", value |-> o.value]
            /\ call' = [op |-> "search_knowledge_base", query |-> query, n |-> max_results,
                        queries |-> o.queries]
            /\ UNCHANGED <<tableVars, handoverVars>>

SearchProductsHandlerWith(queries, samples, limits) ==
    \E query \in queries, specifications \in samples, max_results \in limits :
        \E o \in search_products(VDB, query, specifications, max_results) :
            /\ SetVDB(o.vdb)
            /\ ret' = [raised |-> FALSE, error |-> "", value |-> o.value]
            /\ call' = [op |-> "handler_search_products", query |-> query,
                        specifications |-> specifications, n |-> max_results,
                        queries |-> o.queries]
            /\ UNCHANGED <<tableVars, handoverVars>>

SearchKnowledgeBaseHandler == SearchKnowledgeBaseHandlerWith(Queries, 0..MaxResults)

SearchProductsHandler ==
    SearchProductsHandlerWith(Queries, SpecificationSamples, 0..MaxResults)

\* the retrieval store alone
Next ==
    \/ SetupCollections
    \/ PopulateKnowledgeBase
    \/ PopulateProducts
    \/ SearchKnowledge
    \/ SearchProducts
    \/ ResetDatabase

Spec == Init /\ [][Next]_vars

\* the agent: tables loaded, the store initialized from them, the search handlers
NextAgent ==
    \/ LoadKnowledgeBase
    \/ LoadProducts
    \/ InitializeWithData
    \/ ResetDatabase
    \/ SearchKnowledgeBaseHandler
    \/ SearchProductsHandler

SpecAgent == Init /\ [][NextAgent]_vars

----------------------------------------------------------------------------
(* Claims about the retrieval store *)

\* the collection a store-level search reads
SearchedCollection ==
    IF call.op = "search_knowledge" THEN client.knowledge_base ELSE client.products

\* the natural key a search result carries
ResultKey(r) == IF call.op = "search_knowledge" THEN r.id ELSE r.sku

\* C1: a populate call on a collection that already holds an entry changes
\* nothing of that collection: its entries (keys, document texts, metadata),
\* and so its count, are after the call what they were before it
C1_PopulateSkipsPopulated ==
    [][ /\ (call'.op = "populate_knowledge_base" /\ client.knowledge_base.entries # {})
            => client'.knowledge_base.entries = client.knowledge_base.entries
        /\ (call'.op = "populate_products" /\ client.products.entries # {})
            => client'.products.entries = client.products.entries ]_vars

\* a second populate, with a changed record of the same id, was skipped
C1_Witness ==
    /\ call.op = "populate_knowledge_base"
    /\ call.records = <<K1b, K2>>
    /\ ~ret.raised
    /\ client.knowledge_base.entries = {KnowledgeEntry(K1), KnowledgeEntry(K2)}

\* C2: a search with k >= 1 returns at most k results, at most as many as the
\* collection holds, in non-decreasing order of distance, each an entry of
\* the collection searched
C2_SearchBoundedSorted ==
    (call.op \in {"search_knowledge", "search_products"} /\ call.n >= 1 /\ ~ret.raised)
    => /\ Len(ret.value) <= Min(call.n, Count(SearchedCollection))
       /\ \A i, j \in DOMAIN ret.value :
              i < j => ret.value[i].distance <= ret.value[j].distance
       /\ \A i \in DOMAIN ret.value :
              \E e \in SearchedCollection.entries :
                  /\ e.id = ResultKey(ret.value[i])
                  /\ e.document = ret.value[i].document
                  /\ ret.value[i].distance = Distance(call.query, e.document)

\* a search cut by k, and a search returning two results at different distances
C2_Witness ==
    /\ call.op = "search_knowledge"
    /\ ~ret.raised
    /\ Count(client.knowledge_base) = 2
    /\ Len(ret.value) = 2
    /\ ret.value[1].distance < ret.value[2].distance

\* C4: a search of one collection returns only entries its own populate call
\* inserted, and a populate call leaves the other collection's entries as
\* they were
C4_CollectionsIsolated ==
    [][ /\ (call'.op = "search_knowledge" /\ ~ret'.raised)
            => \A i \in DOMAIN ret'.value :
                   \E e \in inserted'.knowledge_base :
                       e.id = ret'.value[i].id /\ e.document = ret'.value[i].document
        /\ (call'.op = "search_products" /\ ~ret'.raised)
            => \A i \in DOMAIN ret'.value :
                   \E e \in inserted'.products :
                       e.id = ret'.value[i].sku /\ e.document = ret'.value[i].document
        /\ call'.op = "populate_knowledge_base"
            => client'.products.entries = client.products.entries
        /\ call'.op = "populate_products"
            => client'.knowledge_base.entries = client.knowledge_base.entries ]_vars

\* a product search returned products while the knowledge collection holds entries
C4_Witness ==
    /\ call.op = "search_products"
    /\ ~ret.raised
    /\ Len(ret.value) = 2
    /\ client.knowledge_base.entries # {}
    /\ inserted.products = client.products.entries

----------------------------------------------------------------------------
(* Claims about the search handlers *)

\* C3: a search handler called with max_results >= 1 on a collection with no
\* entries gets the empty list from the store, not an error, and returns
\* success = false with an empty result list
C3_EmptyCollectionNotFound ==
    /\ (call.op = "search_knowledge_base" /\ call.n >= 1 /\ client.knowledge_base.entries = {})
        => ret.value = [success |-> FALSE, message |-> MsgKnowledgeNotFound, results |-> <<>>]
    /\ (call.op = "handler_search_products" /\ call.n >= 1 /\ client.products.entries = {})
        => ret.value = [success |-> FALSE, message |-> MsgProductsNotFound, products |-> <<>>]

\* the knowledge handler ran on a wiped or never populated collection while
\* the table was loaded
C3_Witness ==
    /\ call.op = "search_knowledge_base"
    /\ call.n >= 1
    /\ knowledge_base # <<>>
    /\ client.knowledge_base = [exists |-> TRUE, entries |-> {}]
    /\ ret.value.success = FALSE

----------------------------------------------------------------------------
(* Handover: the handler handover_to_human and the mocked transport.       *)
(* The email, the conversation id and the summary are sequences of         *)
(* one-character strings; None is the Python None of an optional argument, *)
(* IntArg an argument that is a non-zero number instead of a string.       *)

None == <<"<None>">>

IntArg == <<"<int>">>

\* "x or ''" of an optional str
OrEmptySeq(x) == IF x = None THEN <<>> ELSE x

\* truthiness of an optional str
Truthy(x) == x # None /\ x # <<>>

\* \s of the pattern
IsSpace(c) == c \in {" ", "\t", "\n", "\r", "\f"}

\* [^\s@] of the pattern
IsLocalChar(c) == ~IsSpace(c) /\ c # "@"

\* the positions where $ matches: the end of the string, and just before a
\* newline that ends the string
DollarPositions(s) ==
    {Len(s)} \cup (IF Len(s) >= 1 /\ s[Len(s)] = "\n" THEN {Len(s) - 1} ELSE {})

\* re.compile(r"^[^\s@]+@[^\s@]+\.[^\s@]+$").match(s): some split of s[1..end]
\* into local, "@", domain head, ".", domain tail, with $ matching at end
EmailPatternMatch(s) ==
    \E end \in DollarPositions(s) :
        \E at \in 2..end : \E dot \in (at + 2)..(end - 1) :
            /\ s[at] = "@"
            /\ s[dot] = "."
            /\ \A i \in 1..(at - 1) : IsLocalChar(s[i])
            /\ \A i \in (at + 1)..(dot - 1) : IsLocalChar(s[i])
            /\ \A i \in (dot + 1)..end : IsLocalChar(s[i])

\* the outcome strings of handover_simple
TransportSuccess == "Transferred to a human agent"
TransportFailure == "Handover failed, please contact the technical team"

\* the handler's message texts
MsgHandoverError == "Handover to a human agent failed, please contact the technical team."
MsgInvalidEmail == "Please provide a valid email address for the handover."
MsgHandoverDone == "Transferred to a human agent, please wait. Your case number is: "

LowerLetters == <<"a", "b", "c", "d", "e", "f", "g", "h", "i", "j", "k", "l", "m",
                  "n", "o", "p", "q", "r", "s", "t", "u", "v", "w", "x", "y", "z">>
UpperLetters == <<"A", "B", "C", "D", "E", "F", "G", "H", "I", "J", "K", "L", "M",
                  "N", "O", "P", "Q", "R", "S", "T", "U", "V", "W", "X", "Y", "Z">>

\* str.upper() of one character
UpperChar(c) ==
    IF \E i \in DOMAIN LowerLetters : LowerLetters[i] = c
    THEN UpperLetters[CHOOSE i \in DOMAIN LowerLetters : LowerLetters[i] = c]
    ELSE c

Upper(s) == [i \in DOMAIN s |-> UpperChar(s[i])]

\* s.startswith(prefix)
SeqStartsWith(s, prefix) ==
    Len(s) >= Len(prefix) /\ \A i \in DOMAIN prefix : s[i] = prefix[i]

\* a _mock_api_call that compares the id with "FAIL" as written
_mock_api_call_case_sensitive(payload, simulate_fail) ==
    IF simulate_fail THEN FALSE
    ELSE ~SeqStartsWith(payload.conversation_id, <<"F", "A", "I", "L">>)

_mock_api_call(payload, simulate_fail) ==
    IF simulate_fail THEN FALSE
    ELSE IF SeqStartsWith(Upper(payload.conversation_id), <<"F", "A", "I", "L">>) THEN FALSE
    ELSE TRUE

SummaryLimit == 500

\* a payload summary that is the whole summary
TruncatedSummary_whole(summary) == OrEmptySeq(summary)

\* (summary or "")[:500]
TruncatedSummary(summary) ==
    SubSeq(OrEmptySeq(summary), 1, Min(SummaryLimit, Len(OrEmptySeq(summary))))

\* handover_simple with simulate_fail at its default: [result, payloads], the
\* outcome string and the payloads handed to _mock_api_call
handover_simple(conversation_id, email, summary) ==
    IF email = IntArg
    THEN [raised |-> TRUE, error |-> "expected string or bytes-like object, got 'int'",
          payloads |-> <<>>]
    ELSE IF ~EmailPatternMatch(OrEmptySeq(email))
    THEN [raised |-> FALSE, result |-> TransportFailure, payloads |-> <<>>]
    ELSE IF summary = IntArg
    THEN [raised |-> TRUE, error |-> "'int' object is not subscriptable", payloads |-> <<>>]
    ELSE LET payload == [conversation_id |-> conversation_id, email |-> email,
                         summary |-> TruncatedSummary(summary)]
         IN  [raised |-> FALSE,
              result |-> IF _mock_api_call(payload, FALSE)
                         THEN TransportSuccess ELSE TransportFailure,
              payloads |-> <<payload>>]

\* a mapping that reports success although handover_simple raised
HandoverValue_success_with_error(t, cid, email) ==
    IF t.raised
    THEN [success |-> TRUE, message |-> <<MsgHandoverDone>> \o cid, error |-> t.error,
          conversation_id |-> cid]
    ELSE IF t.result = TransportSuccess
    THEN [success |-> TRUE, message |-> <<MsgHandoverDone>> \o cid,
          conversation_id |-> cid, email |-> email]
    ELSE [success |-> FALSE, message |-> <<t.result>>, conversation_id |-> cid]

\* the mapping handover_to_human returns for an outcome of handover_simple
HandoverValue(t, cid, email) ==
    IF t.raised
    THEN [success |-> FALSE, message |-> <<MsgHandoverError>>, error |-> t.error,
          conversation_id |-> cid]
    ELSE IF t.result = TransportSuccess
    THEN [success |-> TRUE, message |-> <<MsgHandoverDone>> \o cid,
          conversation_id |-> cid, email |-> email]
    ELSE [success |-> FALSE, message |-> <<t.result>>, conversation_id |-> cid]

\* the characters of "JTCG-CHAT-"
IdPrefix == <<"J", "T", "C", "G", "-", "C", "H", "A", "T", "-">>

UuidPrefixLen == 8

\* an id that is the bare uuid prefix
GeneratedId_bare(uuid_prefix) == uuid_prefix

\* f"JTCG-CHAT-{str(uuid.uuid4())[:8]}"
GeneratedId(uuid_prefix) == IdPrefix \o uuid_prefix

\* a handover_to_human that validates the email after calling the transport
handover_to_human_validating_late(email, conversation_summary, conversation_id, uuid_prefix) ==
    LET cid == IF ~Truthy(conversation_id) THEN GeneratedId(uuid_prefix) ELSE conversation_id
        t == handover_simple(cid, email, conversation_summary)
        call_made == <<[conversation_id |-> cid, email |-> email,
                        summary |-> conversation_summary]>>
    IN  [calls |-> call_made, payloads |-> t.payloads,
         value |-> IF email # IntArg /\ ~EmailPatternMatch(OrEmptySeq(email))
                   THEN [success |-> FALSE, message |-> <<MsgInvalidEmail>>,
                         conversation_id |-> cid]
                   ELSE HandoverValue(t, cid, email)]

\* handover_to_human: [value, calls, payloads], the mapping returned, the
\* calls of handover_simple made and the payloads handed to _mock_api_call
handover_to_human(email, conversation_summary, conversation_id, uuid_prefix) ==
    LET cid == IF ~Truthy(conversation_id) THEN GeneratedId(uuid_prefix) ELSE conversation_id
    IN  IF email = IntArg
        THEN [calls |-> <<>>, payloads |-> <<>>,
              value |-> [success |-> FALSE, message |-> <<MsgHandoverError>>,
                         error |-> "expected string or bytes-like object, got 'int'",
                         conversation_id |-> cid]]
        ELSE IF ~EmailPatternMatch(OrEmptySeq(email))
        THEN [calls |-> <<>>, payloads |-> <<>>,
              value |-> [success |-> FALSE, message |-> <<MsgInvalidEmail>>,
                         conversation_id |-> cid]]
        ELSE LET t == handover_simple(cid, email, conversation_summary)
             IN  [calls |-> <<[conversation_id |-> cid, email |-> email,
                               summary |-> conversation_summary]>>,
                  payloads |-> t.payloads,
                  value |-> HandoverValue(t, cid, email)]

----------------------------------------------------------------------------
(* The handover handler as a state machine *)

MaxSummaryExtra == 2   \* how far past the limit the longest sample summary goes
MaxEmailLen == 6       \* longest email of the exhaustive email check

SummaryChars == <<"x", "y", "z">>

\* a summary of n characters, no two neighbours alike
SummaryOfLen(n) == [i \in 1..n |-> SummaryChars[(i % 3) + 1]]

Summaries ==
    {None, IntArg} \cup {SummaryOfLen(n) : n \in {0, 1} \cup ((SummaryLimit - 1)..(SummaryLimit + MaxSummaryExtra))}

EmailUser == <<"u", "s", "e", "r", "@", "e", "x", "a", "m", "p", "l", "e", ".", "c", "o", "m">>
EmailBad == <<"b", "a", "d", "-", "e", "m", "a", "i", "l">>

EmailSamples ==
    {None, IntArg, <<>>, EmailUser, EmailBad, <<"a", " ", "@", "b", ".", "c">>, <<"a", "@", "b">>}

ConversationIds ==
    {None, <<>>,
     <<"J", "T", "C", "G", "-", "1">>,
     <<"F", "A", "I", "L", "-", "2">>,
     <<"f", "a", "i", "l">>,
     <<"F", "a", "I", "l", "3">>,
     <<"F", "A", "I">>,
     <<"x", "F", "A", "I", "L">>,
     <<" ", "F", "A", "I", "L">>}

\* sample values of str(uuid.uuid4())[:8]: eight lowercase hexadecimal digits
UuidPrefixes ==
    {<<"0", "0", "0", "0", "0", "0", "0", "0">>,
     <<"f", "a", "1", "1", "f", "a", "1", "1">>,
     <<"d", "e", "a", "d", "b", "e", "e", "f">>,
     <<"f", "a", "f", "a", "9", "c", "3", "e">>}

\* every email of at most MaxEmailLen characters over a small alphabet
EmailChars == {"a", "@", ".", " ", "\n"}
EmailStrings == SeqsUpTo(EmailChars, MaxEmailLen) \cup {EmailUser, EmailBad, None}

\* the state before a handler call: the request drawn, nothing returned yet
Requested(requests) ==
    /\ client = [name \in CollectionNames |-> NoCollection]
    /\ knowledge_collection = FALSE
    /\ products_collection = FALSE
    /\ knowledge_base = <<>>
    /\ products = <<>>
    /\ orders_db = EmptyLedger
    /\ inserted = [name \in CollectionNames |-> {}]
    /\ call \in requests
    /\ ret = NoCall
    /\ transport_calls = <<>>
    /\ api_payloads = <<>>

HandoverRequests ==
    [op : {"request"}, email : EmailSamples, conversation_summary : Summaries,
     conversation_id : ConversationIds]

EmailRequests ==
    [op : {"request"}, email : EmailStrings, conversation_summary : {<<"h", "i">>},
     conversation_id : {<<"C", "1">>}]

InitHandover == Requested(HandoverRequests)

InitEmail == Requested(EmailRequests)

\* one invocation of the handler on one of the requests
HandoverToHumanWith(requests) ==
    \E request \in requests, uuid_prefix \in UuidPrefixes :
        LET o == handover_to_human(request.email, request.conversation_summary,
                                   request.conversation_id, uuid_prefix)
        IN  /\ ret' = [raised |-> FALSE, error |-> "", value |-> o.value]
            /\ transport_calls' = o.calls
            /\ api_payloads' = o.payloads
            /\ call' = [request EXCEPT !.op = "handover_to_human"]
            /\ UNCHANGED <<storeVars, tableVars>>

\* one invocation of the handler on the drawn request
HandoverToHuman == call.op = "request" /\ HandoverToHumanWith({call})

NextHandover == HandoverToHuman

SpecHandover == InitHandover /\ [][NextHandover]_vars

SpecEmail == InitEmail /\ [][NextHandover]_vars

----------------------------------------------------------------------------
(* Claims about the handover handler *)

\* the email and the summary of the call are strings or None, as the
\* handler's signature has them
TextArguments == call.email # IntArg /\ call.conversation_summary # IntArg

\* the email of the call passed the handler's validation
EmailPassed == call.email # IntArg /\ EmailPatternMatch(OrEmptySeq(call.email))

\* the id begins with "FAIL" in any mix of upper and lower case
BeginsWithFailAnyCase(id) ==
    /\ Len(id) >= 4
    /\ id[1] \in {"F", "f"} /\ id[2] \in {"A", "a"}
    /\ id[3] \in {"I", "i"} /\ id[4] \in {"L", "l"}

\* C5: with an email that fails validation the handler returns success =
\* false with the corrective prompt and makes no call of the transport,
\* whatever the conversation id and the summary are
C5_InvalidEmailNoTransport ==
    (call.op = "handover_to_human" /\ TextArguments /\ ~EmailPassed)
    => /\ ret.value.success = FALSE
       /\ ret.value.message = <<MsgInvalidEmail>>
       /\ "error" \notin DOMAIN ret.value
       /\ transport_calls = <<>>
       /\ api_payloads = <<>>

\* a malformed email came with a failure-marked id and an over-long summary
C5_Witness ==
    /\ call.op = "handover_to_human"
    /\ call.email = EmailBad
    /\ call.conversation_id = <<"F", "A", "I", "L", "-", "2">>
    /\ Len(call.conversation_summary) > SummaryLimit
    /\ ret.value.success = FALSE
    /\ transport_calls = <<>>

\* C6: with a valid email and a caller-supplied id the handler succeeds, with
\* the success message, exactly when the id does not begin with FAIL in any
\* case, fails with the transport's failure text otherwise, and returns the
\* supplied id either way
C6_OutcomeFollowsFailMarker ==
    (call.op = "handover_to_human" /\ TextArguments /\ EmailPassed
     /\ Truthy(call.conversation_id))
    => /\ ret.value.success = ~BeginsWithFailAnyCase(call.conversation_id)
       /\ ret.value.success
            => ret.value.message = <<MsgHandoverDone>> \o call.conversation_id
       /\ ~ret.value.success => ret.value.message = <<TransportFailure>>
       /\ ret.value.conversation_id = call.conversation_id
       /\ Len(transport_calls) = 1

\* a valid email with a lower-case fail id was refused by the transport
C6_Witness ==
    /\ call.op = "handover_to_human"
    /\ call.email = EmailUser
    /\ call.conversation_id = <<"f", "a", "i", "l">>
    /\ ret.value.success = FALSE
    /\ ret.value.message = <<TransportFailure>>
    /\ ret.value.conversation_id = <<"f", "a", "i", "l">>

\* C7: without a conversation id (None or empty) the handler generates
\* JTCG-CHAT- followed by 8 characters, which does not begin with FAIL; the
\* response carries it also when the email is rejected, and with a valid
\* email the handover succeeds under it
C7_GeneratedIdNeverFails ==
    (call.op = "handover_to_human" /\ TextArguments /\ ~Truthy(call.conversation_id))
    => LET id == ret.value.conversation_id
       IN  /\ Len(id) = Len(IdPrefix) + 8
           /\ SubSeq(id, 1, Len(IdPrefix)) = IdPrefix
           /\ ~BeginsWithFailAnyCase(id)
           /\ EmailPassed
                => /\ ret.value.success = TRUE
                   /\ Len(api_payloads) = 1
                   /\ api_payloads[1].conversation_id = id

\* an id was generated for an empty id argument and returned with the rejection
C7_Witness ==
    /\ call.op = "handover_to_human"
    /\ call.conversation_id = <<>>
    /\ call.email = EmailBad
    /\ ret.value.success = FALSE
    /\ ret.value.conversation_id = IdPrefix \o <<"f", "a", "1", "1", "f", "a", "1", "1">>

\* C8: the handler accepts an email exactly when it has one "@", a non-empty
\* local part, a domain with a "." that has text on both sides, and no
\* whitespace character anywhere
WellFormedEmail(email) ==
    /\ email # None
    /\ Cardinality({i \in DOMAIN email : email[i] = "@"}) = 1
    /\ \A i \in DOMAIN email : ~IsSpace(email[i])
    /\ LET at == CHOOSE i \in DOMAIN email : email[i] = "@"
       IN  /\ at > 1
           /\ \E dot \in (at + 2)..(Len(email) - 1) : email[dot] = "."

C9_PayloadSummaryTruncated ==
    (call.op = "handover_to_human" /\ TextArguments /\ transport_calls # <<>>)
    => /\ Len(api_payloads) = 1
       /\ LET payload == api_payloads[1]
              summary == IF call.conversation_summary = None
                         THEN <<>> ELSE call.conversation_summary
          IN  /\ Len(payload.summary) = (IF Len(summary) <= 500 THEN Len(summary) ELSE 500)
              /\ \A i \in DOMAIN payload.summary : payload.summary[i] = summary[i]
              /\ payload.email = call.email
              /\ payload.conversation_id = ret.value.conversation_id
              /\ Truthy(call.conversation_id)
                   => payload.conversation_id = call.conversation_id

\* a summary longer than the limit reached the transport cut to the limit
C9_Witness ==
    /\ call.op = "handover_to_human"
    /\ call.conversation_summary # None
    /\ Len(call.conversation_summary) = SummaryLimit + 2
    /\ Len(api_payloads) = 1
    /\ Len(api_payloads[1].summary) = SummaryLimit

----------------------------------------------------------------------------
(* DataProcessor: the order ledger. An order of the source is a function    *)
(* from its keys; a mapping of users, a dict in insertion order, is a       *)
(* sequence of [user_id, user_data] with one element per key, and the       *)
(* loaded ledger a sequence of [user_id, orders].                           *)

OrderRequiredKeys ==
    {"order_id", "placed_at", "status", "items", "shipping_address", "contact_phone",
     "order_url"}

\* order_data.get(key, "") or "": the value, or "" for a missing, null or empty one
GetOrEmpty(order_data, key) ==
    IF key \in DOMAIN order_data /\ order_data[key] # JNull
    THEN order_data[key] ELSE StrCell("")

\* Order(...) of one order of the source: the Order, or the failure it raises
ParseOrder(order_data) ==
    IF ~(OrderRequiredKeys \subseteq DOMAIN order_data)
    THEN [raised |-> TRUE, error |-> "KeyError"]
    ELSE LET carrier == GetOrEmpty(order_data, "carrier")
             tracking == GetOrEmpty(order_data, "tracking")
             eta == GetOrEmpty(order_data, "eta")
         IN  IF ~(/\ \A k \in OrderRequiredKeys \ {"items"} : IsStr(order_data[k])
                  /\ IsStr(carrier) /\ IsStr(tracking) /\ IsStr(eta))
             THEN [raised |-> TRUE, error |-> "ValidationError"]
             ELSE [raised |-> FALSE, error |-> "",
                   item |-> [order_id |-> order_data["order_id"].v,
                             placed_at |-> order_data["placed_at"].v,
                             status |-> order_data["status"].v,
                             carrier |-> carrier.v, tracking |-> tracking.v, eta |-> eta.v,
                             items |-> order_data["items"],
                             shipping_address |-> order_data["shipping_address"].v,
                             contact_phone |-> order_data["contact_phone"].v,
                             order_url |-> order_data["order_url"].v]]

\* A JSON object keyed by user id is the sequence of its (user_id, user_data)
\* pairs in the order of the file, a user's object is a record, and the
\* object keyed by user id where it is itself a value is [users |-> pairs].
UsersObject(users) == [users |-> users]

\* the keys a user's object has in the sources, in the order of the file
UserDataKeys == <<"orders", "name">>

\* d.items() of the object found under the key orders_db: the users of a
\* users object; of a user's object its own keys, each with a value that is
\* no object
DictItems(d) ==
    IF "users" \in DOMAIN d
    THEN d.users
    ELSE LET keys == SelectSeq(UserDataKeys, LAMBDA k : k \in DOMAIN d)
         IN  [i \in DOMAIN keys |-> [user_id |-> keys[i], user_data |-> [value |-> d[keys[i]]]]]

\* orders_data.get("orders_db", orders_data)
UnwrapOrders(orders_data) ==
    IF \E i \in DOMAIN orders_data : orders_data[i].user_id = "orders_db"
    THEN DictItems(orders_data[CHOOSE i \in DOMAIN orders_data :
                                   orders_data[i].user_id = "orders_db"].user_data)
    ELSE orders_data

\* user_orders of one user of the source: the parsed orders, or the first failure
ParseUser(user_data) ==
    IF "value" \in DOMAIN user_data
    THEN [raised |-> TRUE, error |-> "TypeError"]
    ELSE IF "orders" \notin DOMAIN user_data
    THEN [raised |-> TRUE, error |-> "KeyError"]
    ELSE LoadRows([i \in DOMAIN user_data.orders |-> ParseOrder(user_data.orders[i])], <<>>)

\* load_orders_from_json: [raised, error, table]; orders_db is assigned only
\* after every user of the source has been parsed
load_orders_from_json(orders_data, old_table) ==
    LET db == UnwrapOrders(orders_data)
        parsed == [i \in DOMAIN db |-> ParseUser(db[i].user_data)]
    IN  IF \E i \in DOMAIN parsed : parsed[i].raised
        THEN LET first == CHOOSE i \in DOMAIN parsed :
                              parsed[i].raised /\ \A j \in 1..(i - 1) : ~parsed[j].raised
             IN  [raised |-> TRUE, error |-> parsed[first].error, table |-> old_table]
        ELSE [raised |-> FALSE, error |-> "",
              table |-> [i \in DOMAIN db |-> [user_id |-> db[i].user_id,
                                              orders |-> parsed[i].table]]]

\* self.orders_db.get(user_id, [])
RECURSIVE get_orders_by_user_id(_, _)
get_orders_by_user_id(table, user_id) ==
    IF table = <<>> THEN <<>>
    ELSE IF table[1].user_id = user_id THEN table[1].orders
    ELSE get_orders_by_user_id(Tail(table), user_id)

----------------------------------------------------------------------------
(* JTCGAgentFunctions.lookup_user_orders *)

MsgOrdersError == "Order lookup failed; try again later or contact customer service."

\* the not-found message names the user id
MsgNoOrders(user_id) ==
    "No orders found for user " \o user_id \o "; check the id or contact customer service."

\* a display that shows every status as it is stored
StatusDisplay_raw(status) == status

\* the localized label of a known status, the status itself otherwise
StatusDisplay(status) ==
    IF status = "processing" THEN "Processing"
    ELSE IF status = "shipped" THEN "Shipped"
    ELSE IF status = "in_transit" THEN "In transit"
    ELSE IF status = "delivered" THEN "Delivered"
    ELSE status

\* order_info of lookup_user_orders
OrderInfo(order) ==
    [order_id |-> order.order_id, placed_at |-> order.placed_at, status |-> order.status,
     carrier |-> order.carrier, tracking |-> order.tracking, eta |-> order.eta,
     items |-> order.items, shipping_address |-> order.shipping_address,
     contact_phone |-> order.contact_phone, order_url |-> order.order_url]

\* formatted_orders holding only the first order
FormattedOrders_first_only(orders) == <<OrderInfo(orders[1])>>

\* formatted_orders: one order_info per order, in the orders' order
FormattedOrders(orders) == [i \in DOMAIN orders |-> OrderInfo(orders[i])]

\* item['name'] raises KeyError for an item without a name
ItemNamesRaise(items) == \E i \in DOMAIN items : "name" \notin DOMAIN items[i]

\* the message lines of the i-th order
OrderLines(i, order) ==
    "\n" \o Str(i) \o ". Order " \o order.order_id
    \o " - Status: " \o StatusDisplay(order.status)
    \o (IF order.carrier # "" /\ order.tracking # ""
        THEN " - Shipping: " \o order.carrier \o " (" \o order.tracking \o ")" ELSE "")
    \o (IF order.eta # "" THEN " - ETA: " \o order.eta ELSE "")
    \o " - Items: " \o Join(", ", [k \in DOMAIN order.items |-> order.items[k].name])
    \o (IF order.order_url # "" THEN " - [Order details](" \o order.order_url \o ")" ELSE "")
    \o "\n"

\* response_parts of lookup_user_orders, joined
OrdersMessage(user_id, formatted_orders) ==
    "Found " \o Str(Len(formatted_orders)) \o " orders of user " \o user_id \o ":\n"
    \o Join("", [i \in DOMAIN formatted_orders |-> OrderLines(i, formatted_orders[i])])
    \o "To see one order in detail, give its order number."

lookup_user_orders(table, user_id) ==
    LET orders == get_orders_by_user_id(table, user_id)
    IN  IF orders = <<>>
        THEN [success |-> FALSE, message |-> MsgNoOrders(user_id), orders |-> <<>>]
        ELSE LET formatted_orders == FormattedOrders(orders)
             IN  IF \E i \in DOMAIN formatted_orders : ItemNamesRaise(formatted_orders[i].items)
                 THEN [success |-> FALSE, message |-> MsgOrdersError, error |-> "'name'",
                       orders |-> <<>>]
                 ELSE [success |-> TRUE,
                       message |-> OrdersMessage(user_id, formatted_orders),
                       orders |-> formatted_orders,
                       user_id |-> user_id,
                       total_orders |-> Len(orders)]

----------------------------------------------------------------------------
(* DataProcessor.get_order_by_id and JTCGAgentFunctions.lookup_order_details *)

\* the orders of all users, user after user in the ledger's order
RECURSIVE AllOrders(_)
AllOrders(table) ==
    IF table = <<>> THEN <<>> ELSE table[1].orders \o AllOrders(Tail(table))

\* get_order_by_id returning the last order with the id
get_order_by_id_last(table, order_id) ==
    LET orders == AllOrders(table)
        hits == {i \in DOMAIN orders : orders[i].order_id = order_id}
    IN  IF hits = {} THEN <<>>
        ELSE <<orders[CHOOSE i \in hits : \A j \in hits : i >= j]>>

\* get_order_by_id: <<order>> for the first order with the id, <<>> for None
get_order_by_id(table, order_id) ==
    LET orders == AllOrders(table)
        hits == {i \in DOMAIN orders : orders[i].order_id = order_id}
    IN  IF hits = {} THEN <<>>
        ELSE <<orders[CHOOSE i \in hits : \A j \in hits : i <= j]>>

MsgOrderDetailsError == "Order detail lookup failed; try again later or contact customer service."

MsgNoOrder(order_id) ==
    "No order " \o order_id \o " found; check the number or contact customer service."

\* item['name'] or item['qty'] raises KeyError for an item without that key
ItemLinesRaise(items) ==
    \E i \in DOMAIN items : ~({"name", "qty"} \subseteq DOMAIN items[i])

\* the error string of the first missing key, in the order the line reads them
ItemLinesError(items) ==
    LET first == CHOOSE i \in DOMAIN items :
                     /\ ~({"name", "qty"} \subseteq DOMAIN items[i])
                     /\ \A j \in 1..(i - 1) : {"name", "qty"} \subseteq DOMAIN items[j]
    IN  IF "name" \notin DOMAIN items[first] THEN "'name'" ELSE "'qty'"

\* "- {name} x{qty}" of one item
ItemLine(item) == "- " \o item.name \o " x" \o Str(item.qty)

\* response_parts of lookup_order_details, joined with newlines
OrderDetailsMessage(order) ==
    Join("\n",
         <<"Order " \o order.order_id \o " details:\n",
           "Status: " \o StatusDisplay(order.status),
           "Placed at: " \o order.placed_at>>
         \o (IF order.carrier # "" THEN <<"Carrier: " \o order.carrier>> ELSE <<>>)
         \o (IF order.tracking # "" THEN <<"Tracking: " \o order.tracking>> ELSE <<>>)
         \o (IF order.eta # "" THEN <<"ETA: " \o order.eta>> ELSE <<>>)
         \o <<"\nItems:">>
         \o [k \in DOMAIN order.items |-> ItemLine(order.items[k])]
         \o <<"\nShipping address: " \o order.shipping_address,
              "Contact phone: " \o order.contact_phone>>
         \o (IF order.order_url # "" THEN <<"\n[Full order](" \o order.order_url \o ")">>
             ELSE <<>>))

\* the order payload of lookup_order_details
OrderPayload(order) ==
    [order_id |-> order.order_id, status |-> order.status, placed_at |-> order.placed_at,
     carrier |-> order.carrier, tracking |-> order.tracking, eta |-> order.eta,
     items |-> order.items, shipping_address |-> order.shipping_address,
     contact_phone |-> order.contact_phone, order_url |-> order.order_url]

lookup_order_details(table, order_id) ==
    LET found == get_order_by_id(table, order_id)
    IN  IF found = <<>>
        THEN [success |-> FALSE, message |-> MsgNoOrder(order_id), order |-> JNull]
        ELSE LET order == found[1]
             IN  IF ItemLinesRaise(order.items)
                 THEN [success |-> FALSE, message |-> MsgOrderDetailsError,
                       error |-> ItemLinesError(order.items), order |-> JNull]
                 ELSE [success |-> TRUE, message |-> OrderDetailsMessage(order),
                       order |-> OrderPayload(order)]

----------------------------------------------------------------------------
(* The order ledger as a state machine: sources are loaded, and users       *)
(* looked up, in any order.                                                 *)

MaxOrders == 2

Item(name, qty) == [name |-> name, qty |-> qty]

OrderData(order_id, status, items) ==
    [order_id |-> StrCell(order_id), placed_at |-> StrCell("2025-08-01"),
     status |-> StrCell(status), items |-> items,
     shipping_address |-> StrCell("1 Main St"), contact_phone |-> StrCell("0912"),
     order_url |-> StrCell("https://jtcg.example/orders/" \o order_id)]

\* a shipped order with carrier, tracking and eta
OD1 ==
    OrderData("JTCG-1", "shipped", <<Item("Monitor Arm", 1), Item("Desk Mat", 2)>>)
    @@ [carrier |-> StrCell("HCT"), tracking |-> StrCell("T1"), eta |-> StrCell("2025-08-05")]

\* an order without the optional fields, tracking given as null
OD2 == OrderData("JTCG-2", "processing", <<Item("Laptop Stand", 1)>>) @@ [tracking |-> JNull]

\* an order one of whose items has no name
OD3 == OrderData("JTCG-3", "delivered", <<Item("Monitor Arm", 1), [qty |-> 1]>>)

OD4 == OrderData("JTCG-4", "returned", <<Item("Cable Clip", 3)>>)

\* an order with the order_id of OD1 and other field values
OD1b == OrderData("JTCG-1", "delivered", <<Item("Webcam", 1)>>)

\* an order one of whose items has no qty
OD5 == OrderData("JTCG-5", "in_transit", <<[name |-> "Monitor Arm"]>>)

\* OD5 with a complete item, and an order whose status is a known one in
\* another letter case
OD5b == OrderData("JTCG-5", "in_transit", <<Item("USB Hub", 1)>>)

OD2b == OrderData("JTCG-2", "Shipped", <<Item("Laptop Stand", 2)>>)

\* an order without its order_id
ODNoId == [k \in DOMAIN OD4 \ {"order_id"} |-> OD4[k]]

\* an order whose status is null
ODNullStatus == [OD4 EXCEPT !["status"] = JNull]

UserIds == {"u_123456", "u_2", "u_unknown"}

OrderIds == {"JTCG-1", "JTCG-2", "JTCG-3", "JTCG-4", "JTCG-5", "JTCG-404"}

UserEntry(user_id, orders) == [user_id |-> user_id, user_data |-> [orders |-> orders]]

WellFormedSources ==
    {<<UserEntry("u_123456", first), UserEntry("u_2", second)>> :
        first \in SeqsUpTo({OD1, OD2, OD3}, MaxOrders),
        second \in {<<>>, <<OD1b>>, <<OD5>>}}

MalformedSources ==
    {<<UserEntry("u_123456", <<OD1, ODNoId>>)>>,
     <<UserEntry("u_123456", <<OD1>>), UserEntry("u_2", <<ODNullStatus>>)>>,
     <<UserEntry("u_123456", <<OD1>>), [user_id |-> "u_2", user_data |-> [name |-> "x"]]>>}

\* a mapping with a user whose id is orders_db
ReservedKeySources ==
    {<<UserEntry("orders_db", <<OD1>>), UserEntry("u_2", <<OD5>>)>>}

\* the mapping of users under the top-level key orders_db
Wrapped(users) == <<[user_id |-> "orders_db", user_data |-> UsersObject(users)]>>

\* each mapping of users bare, and wrapped under the key orders_db
OrderSources ==
    LET bare == WellFormedSources \cup MalformedSources \cup ReservedKeySources
    IN  bare \cup {Wrapped(users) : users \in bare}

InitOrders ==
    /\ client = [name \in CollectionNames |-> NoCollection]
    /\ knowledge_collection = FALSE
    /\ products_collection = FALSE
    /\ knowledge_base = <<>>
    /\ products = <<>>
    /\ orders_db = EmptyLedger
    /\ inserted = [name \in CollectionNames |-> {}]
    /\ call = [op |-> "init"]
    /\ ret = NoCall
    /\ transport_calls = <<>>
    /\ api_payloads = <<>>

LoadOrdersFromJsonFrom(sources) ==
    \E source \in sources :
        LET o == load_orders_from_json(source, orders_db)
        IN  /\ orders_db' = o.table
            /\ call' = [op |-> "load_orders_from_json", source |-> source]
            /\ ret' = [raised |-> o.raised, error |-> o.error, value |-> <<>>]
            /\ UNCHANGED <<knowledge_base, products, storeVars, handoverVars>>

LoadOrdersFromJson == LoadOrdersFromJsonFrom(OrderSources)

LookupUserOrdersOf(user_ids) ==
    \E user_id \in user_ids :
        /\ call' = [op |-> "lookup_user_orders", user_id |-> user_id]
        /\ ret' = [raised |-> FALSE, error |-> "",
                   value |-> lookup_user_orders(orders_db, user_id)]
        /\ UNCHANGED <<tableVars, storeVars, handoverVars>>

LookupUserOrders == LookupUserOrdersOf(UserIds)

LookupOrderDetailsOf(order_ids) ==
    \E order_id \in order_ids :
        /\ call' = [op |-> "lookup_order_details", order_id |-> order_id]
        /\ ret' = [raised |-> FALSE, error |-> "",
                   value |-> lookup_order_details(orders_db, order_id)]
        /\ UNCHANGED <<tableVars, storeVars, handoverVars>>

LookupOrderDetails == LookupOrderDetailsOf(OrderIds)

NextOrders ==
    \/ LoadOrdersFromJson
    \/ LookupUserOrders
    \/ LookupOrderDetails

SpecOrders == InitOrders /\ [][NextOrders]_vars

----------------------------------------------------------------------------
(* Claims on the order lookup *)

\* the orders of a user in the source last loaded without failure
LedgerOrders(user_id) == get_orders_by_user_id(orders_db, user_id)

\* every item of every one of the orders carries a name
AllItemsNamed(orders) ==
    \A i \in DOMAIN orders : \A k \in DOMAIN orders[i].items :
        "name" \in DOMAIN orders[i].items[k]

\* the orders of a user as the source of a load gives them
SourceOrders(source, user_id) ==
    LET db == UnwrapOrders(source)
    IN  IF \E i \in DOMAIN db : db[i].user_id = user_id
        THEN db[CHOOSE i \in DOMAIN db : db[i].user_id = user_id].user_data.orders
        ELSE <<>>

\* the looked-up orders are the ledger's orders, one for one and in order
SameOrders(listed, orders) ==
    /\ Len(listed) = Len(orders)
    /\ \A i \in DOMAIN orders :
        /\ listed[i].order_id = orders[i].order_id
        /\ listed[i].status = orders[i].status
        /\ listed[i].items = orders[i].items

\* a load that succeeded keeps, for every user, the source's orders in the source's order
LoadKeepsSourceOrder ==
    (call.op = "load_orders_from_json" /\ ~ret.raised) =>
        \A user_id \in UserIds :
            LET given == SourceOrders(call.source, user_id)
                kept == LedgerOrders(user_id)
            IN  /\ Len(kept) = Len(given)
                /\ \A i \in DOMAIN given :
                    /\ kept[i].order_id = given[i]["order_id"].v
                    /\ kept[i].items = given[i]["items"]

\* C10 as stated: the lookup of a user with N >= 1 orders in the loaded ledger
\* returns success = true, total_orders = N and exactly those N orders in the
\* source's order; the lookup of an unknown user, or of one with no orders,
\* returns success = false and no orders.
C10_LookupReturnsAllOrders ==
    /\ LoadKeepsSourceOrder
    /\ call.op = "lookup_user_orders" =>
        LET orders == LedgerOrders(call.user_id)
        IN  IF Len(orders) >= 1
            THEN /\ ret.value.success
                 /\ "total_orders" \in DOMAIN ret.value
                 /\ ret.value.total_orders = Len(orders)
                 /\ SameOrders(ret.value.orders, orders)
            ELSE /\ ~ret.value.success
                 /\ ret.value.orders = <<>>

\* C10, amended: the lookup of a user with N >= 1 orders whose items all carry
\* a name returns success = true, total_orders = N and exactly those N orders
\* in the source's order; the lookup of a user one of whose items has no name
\* returns success = false with an error and no orders; the lookup of an
\* unknown user, or of one with no orders, returns success = false and no orders.
C10_LookupReturnsNamedOrders ==
    /\ LoadKeepsSourceOrder
    /\ call.op = "lookup_user_orders" =>
        LET orders == LedgerOrders(call.user_id)
        IN  IF Len(orders) >= 1 /\ AllItemsNamed(orders)
            THEN /\ ret.value.success
                 /\ ret.value.total_orders = Len(orders)
                 /\ SameOrders(ret.value.orders, orders)
            ELSE /\ ~ret.value.success
                 /\ ret.value.orders = <<>>
                 /\ Len(orders) >= 1 => "error" \in DOMAIN ret.value

\* a lookup that returned two orders of a user, and the ledger holds a user
\* with no orders
C10_Witness ==
    /\ call.op = "lookup_user_orders"
    /\ ret.value.success
    /\ Len(ret.value.orders) = 2
    /\ ret.value.orders[1].order_id # ret.value.orders[2].order_id
    /\ \E i \in DOMAIN orders_db : orders_db[i].orders = <<>>

----------------------------------------------------------------------------
(* Claims on the lookup of one order *)

\* t occurs in s
Contains(s, t) == \E i \in 1..(Len(s) - Len(t) + 1) : SubSeq(s, i, i + Len(t) - 1) = t

\* the orders of the ledger that carry the id, in the order a scan meets them
OrdersWithId(order_id) ==
    SelectSeq(AllOrders(orders_db), LAMBDA order : order.order_id = order_id)

\* the payload carries the fields of the order
PayloadOf(payload, order) ==
    /\ payload.order_id = order.order_id
    /\ payload.status = order.status
    /\ payload.placed_at = order.placed_at
    /\ payload.carrier = order.carrier
    /\ payload.tracking = order.tracking
    /\ payload.eta = order.eta
    /\ payload.items = order.items
    /\ payload.shipping_address = order.shipping_address
    /\ payload.contact_phone = order.contact_phone
    /\ payload.order_url = order.order_url

\* the message has a line with the name and the quantity of every item
ListsEveryItem(message, items) ==
    \A k \in DOMAIN items :
        /\ {"name", "qty"} \subseteq DOMAIN items[k]
        /\ Contains(message, items[k].name \o " x" \o Str(items[k].qty))

\* every item carries a name and a qty
AllItemsComplete(items) == \A k \in DOMAIN items : {"name", "qty"} \subseteq DOMAIN items[k]

\* C11 as stated: lookup_order_details(id) returns success = true exactly when
\* some user's orders hold an order with that id; the payload then has that
\* order's fields and the message lists every item with name and quantity;
\* otherwise it returns success = false and order = null.
C11_DetailsFoundExactlyWhenPresent ==
    call.op = "lookup_order_details" =>
        LET matches == OrdersWithId(call.order_id)
        IN  IF matches # <<>>
            THEN /\ ret.value.success
                 /\ \E i \in DOMAIN matches :
                        /\ PayloadOf(ret.value.order, matches[i])
                        /\ ListsEveryItem(ret.value.message, matches[i].items)
            ELSE /\ ~ret.value.success
                 /\ ret.value.order = JNull

\* C11, amended: lookup_order_details(id) returns success = true exactly when
\* some user's orders hold an order with that id and every item of the first
\* such order, scanning users and their orders in source order, carries a name
\* and a qty; the payload then has that order's fields and the message lists
\* every item with name and quantity. When an item of that order lacks a name
\* or a qty it returns success = false with an error and order = null, and when
\* no order has the id success = false and order = null. The outcome is the one
\* the same order gives when another user owns it.
C11_DetailsOfFirstCompleteOrder ==
    call.op = "lookup_order_details" =>
        LET matches == OrdersWithId(call.order_id)
        IN  IF matches # <<>> /\ AllItemsComplete(matches[1].items)
            THEN /\ ret.value.success
                 /\ "error" \notin DOMAIN ret.value
                 /\ PayloadOf(ret.value.order, matches[1])
                 /\ ListsEveryItem(ret.value.message, matches[1].items)
                 /\ ret.value = lookup_order_details(
                        <<[user_id |-> "u_other", orders |-> <<matches[1]>>]>>, call.order_id)
            ELSE /\ ~ret.value.success
                 /\ ret.value.order = JNull
                 /\ matches # <<>> <=> "error" \in DOMAIN ret.value

\* the details of an order that only the second user owns were returned, with
\* two or more users' orders scanned
C11_Witness ==
    /\ call.op = "lookup_order_details"
    /\ ret.value.success
    /\ Len(orders_db) = 2
    /\ Len(orders_db[1].orders) >= 1
    /\ get_order_by_id(<<orders_db[1]>>, call.order_id) = <<>>
    /\ get_order_by_id(<<orders_db[2]>>, call.order_id) # <<>>

----------------------------------------------------------------------------
(* Claims on the loaded ledger *)

\* C12: after a load that succeeded, no order_id occurs twice among the
\* orders of all users, neither under two users nor twice under one, so every
\* order_id belongs to exactly one user.
C12_OrderIdBelongsToOneUser ==
    (call.op = "load_orders_from_json" /\ ~ret.raised) =>
        LET orders == AllOrders(orders_db)
        IN  \A i, j \in DOMAIN orders :
                orders[i].order_id = orders[j].order_id => i = j

----------------------------------------------------------------------------
(* The five capability handlers, each invoked once on a prepared agent: the *)
(* tables loaded, the store initialized from them or not yet touched, the   *)
(* ledger loaded from a source, and the handover arguments drawn.           *)

UntouchedVDB ==
    [client |-> [name \in CollectionNames |-> NoCollection],
     knowledge_collection |-> FALSE,
     products_collection |-> FALSE,
     inserted |-> [name \in CollectionNames |-> {}]]

PreparedTables ==
    {[knowledge_base |-> <<>>, products |-> <<>>],
     [knowledge_base |-> <<K1, K2>>, products |-> <<P1, P2>>]}

\* the store before its first use, and as initialize_with_data leaves it
PreparedStores(tables) ==
    {UntouchedVDB}
    \cup {o.vdb : o \in {x \in initialize_with_data(UntouchedVDB, tables) : ~x.raised}}

PreparedLedgers ==
    {EmptyLedger}
    \cup {load_orders_from_json(source, EmptyLedger).table :
            source \in {<<UserEntry("u_123456", <<OD1, OD3>>), UserEntry("u_2", <<>>)>>,
                        <<UserEntry("u_123456", <<OD2>>), UserEntry("u_2", <<OD5>>)>>,
                        <<UserEntry("u_123456", <<OD4, OD5b>>), UserEntry("u_2", <<OD2b>>)>>}}

HandlerRequests ==
    [op : {"request"}, email : {EmailUser, EmailBad, IntArg},
     conversation_summary : {<<"h", "i">>, IntArg},
     conversation_id : {None, <<"F", "A", "I", "L", "-", "2">>, <<"J", "T", "C", "G", "-", "1">>}]

InitHandlers ==
    \E tables \in PreparedTables :
        \E v \in PreparedStores(tables) :
            /\ client = v.client
            /\ knowledge_collection = v.knowledge_collection
            /\ products_collection = v.products_collection
            /\ inserted = v.inserted
            /\ knowledge_base = tables.knowledge_base
            /\ products = tables.products
            /\ orders_db \in PreparedLedgers
            /\ call \in HandlerRequests
            /\ ret = NoCall
            /\ transport_calls = <<>>
            /\ api_payloads = <<>>

NextHandlers ==
    \/ call.op = "request" /\ SearchKnowledgeBaseHandler
    \/ call.op = "request" /\ SearchProductsHandler
    \/ call.op = "request" /\ LookupUserOrders
    \/ call.op = "request" /\ LookupOrderDetails
    \/ HandoverToHuman

SpecHandlers == InitHandlers /\ [][NextHandlers]_vars

\* the handler of the call is one of the five capability handlers
HandlerReturned ==
    call.op \in {"search_knowledge_base", "handler_search_products", "lookup_user_orders",
                 "lookup_order_details", "handover_to_human"}

----------------------------------------------------------------------------
(* Claims on all handlers *)

\* what the store raises for a query of no results or fewer
StoreError == "Number of requested results cannot be negative, or zero"

\* the failure the rendering of the looked-up user's orders meets, if any
UserOrdersRaise ==
    \E i \in DOMAIN LedgerOrders(call.user_id) :
        ItemNamesRaise(LedgerOrders(call.user_id)[i].items)

\* the failure the rendering of the looked-up order meets, if any
OrderDetailsRaise ==
    /\ OrdersWithId(call.order_id) # <<>>
    /\ ItemLinesRaise(OrdersWithId(call.order_id)[1].items)

\* the returned mapping is the handler's failure report: success = false, the
\* handler's generic message and the raw error string
FailureReport(message, error) ==
    /\ ret.value.success = FALSE
    /\ ret.value.message = message
    /\ "error" \in DOMAIN ret.value
    /\ ret.value.error = error

\* C13: no capability handler propagates an exception: each returns a
\* mapping; when the store, the rendering of a record or the transport call
\* throws, the mapping has success = false, the handler's generic message and
\* the raw error string; and a mapping has an error key only with success = false.
C13_HandlersNeverRaise ==
    HandlerReturned =>
        /\ ~ret.raised
        /\ "success" \in DOMAIN ret.value
        /\ "error" \in DOMAIN ret.value => ret.value.success = FALSE
        /\ (call.op = "search_knowledge_base" /\ call.n <= 0)
             => FailureReport(MsgKnowledgeError, StoreError) /\ ret.value.results = <<>>
        /\ (call.op = "handler_search_products" /\ call.n <= 0)
             => FailureReport(MsgProductsError, StoreError) /\ ret.value.products = <<>>
        /\ (call.op = "lookup_user_orders" /\ UserOrdersRaise)
             => FailureReport(MsgOrdersError, "'name'") /\ ret.value.orders = <<>>
        /\ (call.op = "lookup_order_details" /\ OrderDetailsRaise)
             => /\ ret.value.success = FALSE
                /\ ret.value.message = MsgOrderDetailsError
                /\ ret.value.error \in {"'name'", "'qty'"}
                /\ ret.value.order = JNull
        /\ (call.op = "handover_to_human" /\ call.email = IntArg)
             => FailureReport(<<MsgHandoverError>>,
                              "expected string or bytes-like object, got 'int'")
        /\ (call.op = "handover_to_human" /\ EmailPassed /\ call.conversation_summary = IntArg)
             => /\ FailureReport(<<MsgHandoverError>>, "'int' object is not subscriptable")
                /\ ret.value.conversation_id # None

\* the call of handover_simple raised inside the handler, on a summary that
\* is no string, and the handler returned its failure report
C13_Witness ==
    /\ call.op = "handover_to_human"
    /\ call.conversation_summary = IntArg
    /\ Len(transport_calls) = 1
    /\ ret.value.success = FALSE
    /\ "error" \in DOMAIN ret.value


\* the value is a list, and an empty one
IsEmptyList(x) == DOMAIN x = {}

\* the request of the call found nothing: the searched collection is empty,
\* the user has no orders, or no order has the id
ZeroResults ==
    \/ call.op = "search_knowledge_base" /\ call.n > 0 /\ client.knowledge_base.entries = {}
    \/ call.op = "handler_search_products" /\ call.n > 0 /\ client.products.entries = {}
    \/ call.op = "lookup_user_orders" /\ LedgerOrders(call.user_id) = <<>>
    \/ call.op = "lookup_order_details" /\ OrdersWithId(call.order_id) = <<>>

\* the not-found message of the handler of the call
NotFoundMessage ==
    IF call.op = "search_knowledge_base" THEN MsgKnowledgeNotFound
    ELSE IF call.op = "handler_search_products" THEN MsgProductsNotFound
    ELSE IF call.op = "lookup_user_orders" THEN MsgNoOrders(call.user_id)
    ELSE MsgNoOrder(call.order_id)

\* the value under the domain key of the handler of the call
DomainValue ==
    IF call.op = "search_knowledge_base" THEN ret.value.results
    ELSE IF call.op = "handler_search_products" THEN ret.value.products
    ELSE IF call.op = "lookup_user_orders" THEN ret.value.orders
    ELSE ret.value.order

\* C14 as stated: a request with zero results makes each of the four
\* search/lookup handlers return, without raising, success = false, its
\* not-found message and an empty list under its domain key.
C14_ZeroResultsEmptyList ==
    ZeroResults =>
        /\ ~ret.raised
        /\ ret.value.success = FALSE
        /\ ret.value.message = NotFoundMessage
        /\ IsEmptyList(DomainValue)

\* C14, amended: a request with zero results makes each of the four handlers
\* return, without raising and without an error key, success = false and its
\* not-found message; search_knowledge_base, search_products and
\* lookup_user_orders return an empty list under results, products and orders,
\* and lookup_order_details returns order = null.
C14_ZeroResultsNotFound ==
    ZeroResults =>
        /\ ~ret.raised
        /\ ret.value.success = FALSE
        /\ "error" \notin DOMAIN ret.value
        /\ ret.value.message = NotFoundMessage
        /\ IF call.op = "lookup_order_details"
           THEN ret.value.order = JNull
           ELSE DomainValue = <<>>

\* a product search of an empty collection returned the not-found mapping
C14_Witness ==
    /\ call.op = "handler_search_products"
    /\ call.n > 0
    /\ client.products.exists /\ client.products.entries = {}
    /\ ret.value.success = FALSE
    /\ ret.value.products = <<>>
    /\ ret.value.message = MsgProductsNotFound


\* C15 as stated: within one invocation search_knowledge_base and
\* search_products issue exactly one retrieval query, and handover_to_human
\* calls the handover transport exactly once, also when that call fails.
C15_EveryCallExactlyOnce ==
    /\ call.op \in {"search_knowledge_base", "handler_search_products"}
         => Len(call.queries) = 1
    /\ call.op = "handover_to_human" => Len(transport_calls) = 1

\* C15, amended: within one invocation search_knowledge_base and
\* search_products issue exactly one retrieval query, also when it raises;
\* handover_to_human calls the handover transport exactly once when the email
\* passes the validation, also when that call fails or raises, and not at all
\* when the email is rejected; no call is ever repeated.
C15_NoCallRepeated ==
    /\ call.op = "search_knowledge_base"
         => call.queries = <<RetrievalQuery("knowledge_base", call.query, call.n)>>
    /\ call.op = "handler_search_products"
         => /\ Len(call.queries) = 1
            /\ call.queries[1].collection = "products"
            /\ call.queries[1].n_results = call.n
    /\ call.op = "handover_to_human"
         => /\ Len(transport_calls) = (IF EmailPassed THEN 1 ELSE 0)
            /\ Len(api_payloads) <= 1

\* the one call of the transport failed on a failure-marked id, and was not repeated
C15_Witness ==
    /\ call.op = "handover_to_human"
    /\ call.email = EmailUser
    /\ call.conversation_id = <<"F", "A", "I", "L", "-", "2">>
    /\ ret.value.success = FALSE
    /\ Len(transport_calls) = 1
    /\ Len(api_payloads) = 1

----------------------------------------------------------------------------
(* JTCGAgentFunctions.detect_intent. A message is a sequence of characters; *)
(* a character outside ASCII is written as its code point, "U+8A02".        *)

\* str.lower() of one character
LowerChar(c) ==
    IF \E i \in DOMAIN UpperLetters : UpperLetters[i] = c
    THEN LowerLetters[CHOOSE i \in DOMAIN UpperLetters : UpperLetters[i] = c]
    ELSE c

Lower(s) == [i \in DOMAIN s |-> LowerChar(s[i])]

\* keyword in message_lower
Occurs(keyword, message) ==
    \E i \in 1..(Len(message) - Len(keyword) + 1) :
        \A k \in DOMAIN keyword : message[i + k - 1] = keyword[k]

\* the order keywords
order_keywords ==
    {<<"U+8A02", "U+55AE">>,
     <<"U+7269", "U+6D41">>,
     <<"U+8FFD", "U+8E64">>,
     <<"U+914D", "U+9001">>,
     <<"U+51FA", "U+8CA8">>,
     <<"U+5230", "U+8CA8">>,
     <<"o", "r", "d", "e", "r">>,
     <<"t", "r", "a", "c", "k", "i", "n", "g">>,
     <<"s", "h", "i", "p", "p", "i", "n", "g">>,
     <<"d", "e", "l", "i", "v", "e", "r", "y">>}

\* the product keywords
product_keywords ==
    {<<"U+7522", "U+54C1">>,
     <<"U+81C2", "U+67B6">>,
     <<"U+652F", "U+67B6">>,
     <<"U+87A2", "U+5E55">>,
     <<"U+63A8", "U+85A6">>,
     <<"U+898F", "U+683C">>,
     <<"U+5C3A", "U+5BF8">>,
     <<"v", "e", "s", "a">>,
     <<"a", "r", "m">>,
     <<"m", "o", "n", "i", "t", "o", "r">>,
     <<"p", "r", "o", "d", "u", "c", "t">>}

\* the handover keywords
handover_keywords ==
    {<<"U+771F", "U+4EBA">>,
     <<"U+5BA2", "U+670D">>,
     <<"U+4EBA", "U+5DE5">>,
     <<"U+8F49", "U+63A5">>,
     <<"U+5354", "U+52A9">>,
     <<"h", "u", "m", "a", "n">>,
     <<"h", "e", "l", "p">>,
     <<"s", "u", "p", "p", "o", "r", "t">>,
     <<"a", "g", "e", "n", "t">>}

\* the FAQ keywords
faq_keywords ==
    {<<"U+653F", "U+7B56">>,
     <<"U+9000", "U+63DB", "U+8CA8">>,
     <<"U+4FDD", "U+56FA">>,
     <<"U+767C", "U+7968">>,
     <<"U+904B", "U+8CBB">>,
     <<"U+4ED8", "U+6B3E">>,
     <<"p", "o", "l", "i", "c", "y">>,
     <<"r", "e", "t", "u", "r", "n">>,
     <<"w", "a", "r", "r", "a", "n", "t", "y">>,
     <<"p", "a", "y", "m", "e", "n", "t">>}

\* any(keyword in message_lower for keyword in keywords)
AnyKeyword(keywords, message_lower) ==
    \E keyword \in keywords : Occurs(keyword, message_lower)

\* a detect_intent that looks for the product keywords first
detect_intent_product_first(user_message) ==
    LET message_lower == Lower(user_message)
    IN  IF AnyKeyword(product_keywords, message_lower) THEN "product"
        ELSE IF AnyKeyword(order_keywords, message_lower) THEN "order"
        ELSE IF AnyKeyword(handover_keywords, message_lower) THEN "handover"
        ELSE IF AnyKeyword(faq_keywords, message_lower) THEN "faq"
        ELSE "general"

detect_intent(user_message) ==
    LET message_lower == Lower(user_message)
    IN  IF AnyKeyword(order_keywords, message_lower) THEN "order"
        ELSE IF AnyKeyword(product_keywords, message_lower) THEN "product"
        ELSE IF AnyKeyword(handover_keywords, message_lower) THEN "handover"
        ELSE IF AnyKeyword(faq_keywords, message_lower) THEN "faq"
        ELSE "general"

----------------------------------------------------------------------------
(* detect_intent applied to messages built from a vocabulary *)

MaxWords == 2

ExampleOrder == <<"U+8ACB", "U+554F", "U+6211", "U+7684", "U+8A02", "U+55AE", "U+5230", "U+4E86", "U+55CE">>
ExampleProduct == <<"U+6709", "U+63A8", "U+85A6", "U+7684", "U+87A2", "U+5E55", "U+652F", "U+67B6", "U+55CE">>
ExampleHandover == <<"U+53EF", "U+4EE5", "U+8F49", "U+771F", "U+4EBA", "U+5BA2", "U+670D", "U+55CE">>
ExampleFaq == <<"U+9000", "U+63DB", "U+8CA8", "U+653F", "U+7B56", "U+662F", "U+4EC0", "U+9EBC">>
ExampleGeneral == <<"U+4ECA", "U+5929", "U+5929", "U+6C23", "U+5982", "U+4F55">>

\* keywords of every set in both scripts and both cases, halves of a keyword,
\* and words that are no keyword
Vocabulary ==
    {<<"o", "r", "d", "e", "r">>,
     <<"O", "R", "D", "E", "R">>,
     <<"U+8A02", "U+55AE">>,
     <<"o", "r", "d">>,
     <<"e", "r", " ">>,
     <<"A", "r", "m">>,
     <<"U+87A2", "U+5E55">>,
     <<"H", "u", "m", "a", "n">>,
     <<"U+5BA2", "U+670D">>,
     <<"p", "o", "l", "i", "c", "y">>,
     <<"U+9000", "U+63DB", "U+8CA8">>,
     <<"w", "a", "r", "r", "a", "n", "t", "y">>,
     <<"h", "i", " ">>,
     <<"U+5929", "U+6C23">>,
     <<"?">>}

RECURSIVE Concat(_)
Concat(words) == IF words = <<>> THEN <<>> ELSE words[1] \o Concat(Tail(words))

Messages ==
    {ExampleOrder, ExampleProduct, ExampleHandover, ExampleFaq, ExampleGeneral}
    \cup {Concat(words) : words \in SeqsUpTo(Vocabulary, MaxWords)}

InitIntent == Requested([op : {"request"}, user_message : Messages])

DetectIntentOf(messages) ==
    \E user_message \in messages :
        /\ call' = [op |-> "detect_intent", user_message |-> user_message]
        /\ ret' = [raised |-> FALSE, error |-> "", value |-> detect_intent(user_message)]
        /\ UNCHANGED <<storeVars, tableVars, handoverVars>>

DetectIntent == call.op = "request" /\ DetectIntentOf({call.user_message})

NextIntent == DetectIntent

SpecIntent == InitIntent /\ [][NextIntent]_vars

----------------------------------------------------------------------------
(* Claim on detect_intent *)

\* some keyword of the set is a substring of the lowercased message
Mentions(keywords, message) ==
    \E keyword \in keywords :
        \E i \in 0..(Len(message) - Len(keyword)) :
            SubSeq(Lower(message), i + 1, i + Len(keyword)) = keyword

\* the keyword sets in priority order, with their categories
IntentPriority ==
    <<[category |-> "order", keywords |-> order_keywords],
      [category |-> "product", keywords |-> product_keywords],
      [category |-> "handover", keywords |-> handover_keywords],
      [category |-> "faq", keywords |-> faq_keywords]>>

\* C16: detect_intent returns, for every message, the category of the first
\* keyword set in the order order, product, handover, faq that has a keyword
\* occurring in the lowercased message, and general when none has; the five
\* example messages classify as order, product, handover, faq and general.
C16_IntentByPriority ==
    call.op = "detect_intent" =>
        LET message == call.user_message
            hits == {p \in DOMAIN IntentPriority : Mentions(IntentPriority[p].keywords, message)}
        IN  /\ ret.value \in {"order", "product", "handover", "faq", "general"}
            /\ hits = {} => ret.value = "general"
            /\ hits # {} =>
                  ret.value = IntentPriority[CHOOSE p \in hits : \A q \in hits : p <= q].category
            /\ message = ExampleOrder => ret.value = "order"
            /\ message = ExampleProduct => ret.value = "product"
            /\ message = ExampleHandover => ret.value = "handover"
            /\ message = ExampleFaq => ret.value = "faq"
            /\ message = ExampleGeneral => ret.value = "general"

\* a message with a product keyword in upper case before an order keyword
\* was classified as order
C16_Witness ==
    /\ call.op = "detect_intent"
    /\ call.user_message = <<"A", "r", "m">> \o <<"U+8A02", "U+55AE">>
    /\ ret.value = "order"

----------------------------------------------------------------------------
(* DataProcessor.load_all_data, and the loaders each applied once to a      *)
(* processor whose tables an earlier load has filled or not.                *)

\* load_all_data: the three loads in turn, the first failure propagated with
\* the tables of the loads before it replaced and the others as they were
load_all_data(sources, tables) ==
    LET k == load_knowledge_base(sources.knowledge_csv, tables.knowledge_base)
        p == load_products(sources.products_csv, tables.products)
        o == load_orders_from_json(sources.orders_json, tables.orders_db)
    IN  IF k.raised
        THEN [raised |-> TRUE, error |-> k.error, knowledge_base |-> tables.knowledge_base,
              products |-> tables.products, orders_db |-> tables.orders_db]
        ELSE IF p.raised
        THEN [raised |-> TRUE, error |-> p.error, knowledge_base |-> k.table,
              products |-> tables.products, orders_db |-> tables.orders_db]
        ELSE IF o.raised
        THEN [raised |-> TRUE, error |-> o.error, knowledge_base |-> k.table,
              products |-> p.table, orders_db |-> tables.orders_db]
        ELSE [raised |-> FALSE, error |-> "", knowledge_base |-> k.table,
              products |-> p.table, orders_db |-> o.table]

AllKnowledgeSources == KnowledgeSources \cup KnowledgeSourceVariants

AllProductSources == ProductSources \cup ProductSourceVariants

\* the source files handed to load_all_data: all well-formed, or one of them
\* without a required key
AllDataSources ==
    [knowledge_csv : {KnowledgeSource(<<K1b, K2>>), DropColumn(KnowledgeSource(<<K1>>), "id")},
     products_csv : {ProductSource(<<P1b, P2>>), DropColumn(ProductSource(<<P1, P2>>), "sku")},
     orders_json : {<<UserEntry("u_123456", <<OD2>>)>>, <<UserEntry("u_123456", <<OD1, ODNoId>>)>>}]

InitLoad ==
    /\ client = [name \in CollectionNames |-> NoCollection]
    /\ knowledge_collection = FALSE
    /\ products_collection = FALSE
    /\ inserted = [name \in CollectionNames |-> {}]
    /\ knowledge_base \in {<<>>, <<K1, K2>>}
    /\ products \in {<<>>, <<P1, P2>>}
    /\ orders_db \in PreparedLedgers
    /\ call = [op |-> "request"]
    /\ ret = NoCall
    /\ transport_calls = <<>>
    /\ api_payloads = <<>>

LoadAllData ==
    \E sources \in AllDataSources :
        LET o == load_all_data(sources, [knowledge_base |-> knowledge_base,
                                         products |-> products, orders_db |-> orders_db])
        IN  /\ knowledge_base' = o.knowledge_base
            /\ products' = o.products
            /\ orders_db' = o.orders_db
            /\ call' = [op |-> "load_all_data", sources |-> sources]
            /\ ret' = [raised |-> o.raised, error |-> o.error, value |-> <<>>]
            /\ UNCHANGED <<storeVars, handoverVars>>

NextLoad ==
    \/ call.op = "request" /\ LoadKnowledgeBaseFrom(AllKnowledgeSources)
    \/ call.op = "request" /\ LoadProductsFrom(AllProductSources)
    \/ call.op = "request" /\ LoadOrdersFromJson
    \/ call.op = "request" /\ LoadAllData

SpecLoad == InitLoad /\ [][NextLoad]_vars

----------------------------------------------------------------------------
(* Claims on loading *)

\* some row of the knowledge source has no id
KnowledgeLacksKey(source) == \E i \in DOMAIN source.rows : "id" \notin DOMAIN source.rows[i]

\* some row of the product source has no sku
ProductsLackKey(source) == \E i \in DOMAIN source.rows : "sku" \notin DOMAIN source.rows[i]

\* some order of the order source has no order_id
OrdersLackKey(source) ==
    \E u \in DOMAIN UnwrapOrders(source) :
        /\ "orders" \in DOMAIN UnwrapOrders(source)[u].user_data
        /\ \E i \in DOMAIN UnwrapOrders(source)[u].user_data.orders :
              "order_id" \notin DOMAIN UnwrapOrders(source)[u].user_data.orders[i]

\* C17: a load from a source with a row that lacks its required key (id, sku,
\* order_id) raises and leaves the table of that source exactly as it was, so
\* no row of the failed source is loaded; load_all_data propagates the failure
\* and leaves the table of the failed source, and of the sources after it, as
\* they were.
C17_FailedLoadLoadsNothing ==
    [][/\ (call'.op = "load_knowledge_base" /\ KnowledgeLacksKey(call'.source))
            => ret'.raised /\ knowledge_base' = knowledge_base
       /\ (call'.op = "load_products" /\ ProductsLackKey(call'.source))
            => ret'.raised /\ products' = products
       /\ (call'.op = "load_orders_from_json" /\ OrdersLackKey(call'.source))
            => ret'.raised /\ orders_db' = orders_db
       /\ (call'.op = "load_all_data" /\ KnowledgeLacksKey(call'.sources.knowledge_csv))
            => ret'.raised /\ tableVars' = tableVars
       /\ (call'.op = "load_all_data" /\ ProductsLackKey(call'.sources.products_csv))
            => ret'.raised /\ products' = products /\ orders_db' = orders_db
       /\ (call'.op = "load_all_data" /\ OrdersLackKey(call'.sources.orders_json))
            => ret'.raised /\ orders_db' = orders_db
      ]_vars

\* a load of orders failed on the second order of a user, after a first
\* well-formed one, and the ledger still holds what an earlier load put there
C17_Witness ==
    /\ call.op = "load_orders_from_json"
    /\ call.source = <<UserEntry("u_123456", <<OD1, ODNoId>>)>>
    /\ ret.raised
    /\ orders_db # EmptyLedger


\* the source has no value for the column in the row: no such column, or an
\* empty cell
NoValue(row, column) == column \notin DOMAIN row \/ row[column] = NaN

\* the optional string fields of a KnowledgeItem and of a Product, each with
\* the column it is read from
KnowledgeOptionalColumns ==
    {<<"url_label", "urls/0/label">>, <<"url_href", "urls/0/href">>, <<"image_url", "images/0">>}

ProductOptionalColumns ==
    {<<"arm_type", "specs/arm_type">>, <<"size_max_inch", "specs/size_max_inch">>,
     <<"weight_per_arm_kg", "specs/weight_per_arm_kg">>,
     <<"desk_thickness_mm", "specs/desk_thickness_mm">>, <<"rotation", "specs/rotation">>,
     <<"tilt", "specs/tilt">>, <<"swivel", "specs/swivel">>,
     <<"compatibility_notes", "compatibility_notes">>, <<"url", "url">>,
     <<"image_url", "images/0">>, <<"reach_mm", "specs/reach_mm">>,
     <<"tray_size_inch", "specs/tray_size_inch">>}

\* no column with the prefix has a value in the row
NoListValue(columns, row, prefix) ==
    \A i \in DOMAIN columns : StartsWith(columns[i], prefix) => NoValue(row, columns[i])

\* the orders of the order source, user after user, as the source gives them
RECURSIVE SourceOrderList(_)
SourceOrderList(users) ==
    IF users = <<>> THEN <<>>
    ELSE users[1].user_data.orders \o SourceOrderList(Tail(users))

\* every optional field of the loaded knowledge items has its default where
\* the source has no value
KnowledgeDefaults(source, table) ==
    \A i \in DOMAIN table :
        LET row == source.rows[i]
            item == table[i]
        IN  /\ \A fc \in KnowledgeOptionalColumns : NoValue(row, fc[2]) => item[fc[1]] = ""
            /\ NoListValue(source.columns, row, "tags/") => item.tags = <<>>

ProductDefaults(source, table) ==
    \A i \in DOMAIN table :
        LET row == source.rows[i]
            item == table[i]
        IN  /\ \A fc \in ProductOptionalColumns : NoValue(row, fc[2]) => item[fc[1]] = ""
            /\ NoValue(row, "specs/usb_hub") => item.usb_hub = FALSE
            /\ NoListValue(source.columns, row, "specs/vesa/") => item.vesa_options = <<>>
            /\ NoListValue(source.columns, row, "specs/includes/") => item.includes = <<>>

OrderDefaults(source, ledger) ==
    LET given == SourceOrderList(UnwrapOrders(source))
        kept == AllOrders(ledger)
    IN  /\ Len(kept) = Len(given)
        /\ \A i \in DOMAIN kept : \A key \in {"carrier", "tracking", "eta"} :
               (key \notin DOMAIN given[i] \/ given[i][key] = JNull) => kept[i][key] = ""

\* C18: after a load that succeeded every optional field has a value: where
\* the source has none, a string field is the empty string, usb_hub is false
\* and a list field is the empty list.
C18_NoUnsetField ==
    /\ (call.op = "load_knowledge_base" /\ ~ret.raised)
          => KnowledgeDefaults(call.source, knowledge_base)
    /\ (call.op = "load_products" /\ ~ret.raised)
          => ProductDefaults(call.source, products)
    /\ (call.op = "load_orders_from_json" /\ ~ret.raised)
          => OrderDefaults(call.source, orders_db)
    /\ (call.op = "load_all_data" /\ ~ret.raised)
          => /\ KnowledgeDefaults(call.sources.knowledge_csv, knowledge_base)
             /\ ProductDefaults(call.sources.products_csv, products)
             /\ OrderDefaults(call.sources.orders_json, orders_db)

\* products were loaded from a source without the usb_hub, url and tilt
\* columns and with empty cells in others
C18_Witness ==
    /\ call.op = "load_products"
    /\ ~ret.raised
    /\ Len(products) = 2
    /\ "specs/usb_hub" \notin DOMAIN call.source.rows[1]
    /\ call.source.rows[1]["specs/swivel"] = NaN
    /\ products[1].usb_hub = FALSE /\ products[1].url = "" /\ products[1].swivel = ""


\* the name begins with the prefix
HasPrefix(name, prefix) ==
    Len(name) >= Len(prefix) /\ SubSeq(name, 1, Len(prefix)) = prefix

\* the values of the row's non-null cells in the columns whose name begins
\* with the prefix, in the order the source has the columns
CellsUnder(source, i, prefix) ==
    LET row == source.rows[i]
        cols == SelectSeq(source.columns, LAMBDA c : HasPrefix(c, prefix) /\ row[c] # NaN)
    IN  [j \in DOMAIN cols |-> row[cols[j]].v]

KnowledgeLists_read(source, table) ==
    \A i \in DOMAIN table : table[i].tags = CellsUnder(source, i, "tags/")

ProductLists_read(source, table) ==
    \A i \in DOMAIN table :
        /\ table[i].vesa_options = CellsUnder(source, i, "specs/vesa/")
        /\ table[i].includes = CellsUnder(source, i, "specs/includes/")

\* C19: after a load that succeeded, tags, vesa_options and includes of every
\* item are the non-null cells of the columns named tags/..., specs/vesa/...
\* and specs/includes/..., in the column order of the source; a column of
\* another name adds nothing, and the list is empty when there is no such
\* column or every such cell is null.
C19_ListsFromPrefixedColumns ==
    /\ (call.op = "load_knowledge_base" /\ ~ret.raised)
          => KnowledgeLists_read(call.source, knowledge_base)
    /\ (call.op = "load_products" /\ ~ret.raised)
          => ProductLists_read(call.source, products)
    /\ (call.op = "load_all_data" /\ ~ret.raised)
          => /\ KnowledgeLists_read(call.sources.knowledge_csv, knowledge_base)
             /\ ProductLists_read(call.sources.products_csv, products)

\* knowledge was loaded from a source that has a filled column meta/tags/0 in
\* front and tags/1 before tags/0: the second item has its two tags in that
\* order and nothing else
C19_Witness ==
    /\ call.op = "load_knowledge_base"
    /\ ~ret.raised
    /\ Len(knowledge_base) = 2
    /\ call.source.columns[1] = "meta/tags/0"
    /\ call.source.rows[2]["meta/tags/0"] # NaN
    /\ knowledge_base[2].tags = <<"policy", "warranty">>
    /\ knowledge_base[1].tags = <<"returns">>


\* the source is a mapping of users under the single top-level key orders_db
IsWrapped(source) ==
    /\ Len(source) = 1
    /\ source[1].user_id = "orders_db"
    /\ "users" \in DOMAIN source[1].user_data

\* the mapping a wrapped source holds
Inner(source) == source[1].user_data.users

\* C20: loading the wrapped source {orders_db: M} gives exactly what loading
\* the bare mapping M gives: the same outcome and, on success, the same
\* ledger (users, their orders in order, every field).
C20_WrappedLoadsAsBare ==
    (call.op = "load_orders_from_json" /\ IsWrapped(call.source)) =>
        LET bare == load_orders_from_json(Inner(call.source), EmptyLedger)
        IN  /\ ret.raised = bare.raised
            /\ ~ret.raised => orders_db = bare.table

\* the same for the mappings that have no user with the id orders_db
C20_WrappedLoadsAsBare_NoReservedId ==
    (/\ call.op = "load_orders_from_json"
     /\ IsWrapped(call.source)
     /\ \A i \in DOMAIN Inner(call.source) : Inner(call.source)[i].user_id # "orders_db") =>
        LET bare == load_orders_from_json(Inner(call.source), EmptyLedger)
        IN  /\ ret.raised = bare.raised
            /\ ret.error = bare.error
            /\ ~ret.raised => orders_db = bare.table

\* a wrapped source with two users and three orders was loaded
C20_Witness ==
    /\ call.op = "load_orders_from_json"
    /\ IsWrapped(call.source)
    /\ ~ret.raised
    /\ Len(orders_db) = 2
    /\ Len(orders_db[1].orders) = 2
    /\ Len(orders_db[2].orders) = 1

----------------------------------------------------------------------------
(* DataProcessor: exact-key lookup on loaded tables *)

\* the sources the three tables are loaded from, among them sources in which
\* two records have the same key
LookupKnowledgeSources ==
    {KnowledgeSource(l) : l \in {<<>>, <<K1, K2>>, <<K1b, K2>>, <<K2, K1, K1b>>}}

LookupProductSources ==
    {ProductSource(l) : l \in {<<>>, <<P1, P2>>, <<P1b, P2>>, <<P1, P2, P1b>>}}

LookupOrderSources ==
    {<<>>,
     <<UserEntry("u_123456", <<OD1, OD3>>), UserEntry("u_2", <<OD2>>)>>,
     <<UserEntry("u_123456", <<OD2, OD1>>), UserEntry("u_2", <<OD1b>>)>>}

KnowledgeIds == {"FAQ-1", "FAQ-2", "FAQ-404"}

Skus == {"ARM-1", "ARM-2", "ARM-404"}

InitLookup ==
    /\ client = [name \in CollectionNames |-> NoCollection]
    /\ knowledge_collection = FALSE
    /\ products_collection = FALSE
    /\ inserted = [name \in CollectionNames |-> {}]
    /\ \E source \in LookupKnowledgeSources :
           knowledge_base = load_knowledge_base(source, <<>>).table
    /\ \E source \in LookupProductSources :
           products = load_products(source, <<>>).table
    /\ \E source \in LookupOrderSources :
           orders_db = load_orders_from_json(source, EmptyLedger).table
    /\ call = [op |-> "request"]
    /\ ret = NoCall
    /\ transport_calls = <<>>
    /\ api_payloads = <<>>

GetKnowledgeById ==
    \E knowledge_id \in KnowledgeIds :
        /\ call' = [op |-> "get_knowledge_by_id", key |-> knowledge_id]
        /\ ret' = [raised |-> FALSE, error |-> "",
                   value |-> get_knowledge_by_id(knowledge_base, knowledge_id)]
        /\ UNCHANGED <<tableVars, storeVars, handoverVars>>

GetProductBySku ==
    \E sku \in Skus :
        /\ call' = [op |-> "get_product_by_sku", key |-> sku]
        /\ ret' = [raised |-> FALSE, error |-> "", value |-> get_product_by_sku(products, sku)]
        /\ UNCHANGED <<tableVars, storeVars, handoverVars>>

GetOrderById ==
    \E order_id \in OrderIds :
        /\ call' = [op |-> "get_order_by_id", key |-> order_id]
        /\ ret' = [raised |-> FALSE, error |-> "", value |-> get_order_by_id(orders_db, order_id)]
        /\ UNCHANGED <<tableVars, storeVars, handoverVars>>

NextLookup ==
    \/ call.op = "request" /\ GetKnowledgeById
    \/ call.op = "request" /\ GetProductBySku
    \/ call.op = "request" /\ GetOrderById

SpecLookup == InitLookup /\ [][NextLookup]_vars

----------------------------------------------------------------------------
(* Claims on exact-key lookup *)

\* the natural keys of the records of the table the call looked in
LookedUpKeys ==
    IF call.op = "get_knowledge_by_id"
    THEN [i \in DOMAIN knowledge_base |-> knowledge_base[i].id]
    ELSE IF call.op = "get_product_by_sku"
    THEN [i \in DOMAIN products |-> products[i].sku]
    ELSE [i \in DOMAIN AllOrders(orders_db) |-> AllOrders(orders_db)[i].order_id]

\* the records of that table
LookedUpRecords ==
    IF call.op = "get_knowledge_by_id" THEN knowledge_base
    ELSE IF call.op = "get_product_by_sku" THEN products
    ELSE AllOrders(orders_db)

ExactKeyLookup == call.op \in {"get_knowledge_by_id", "get_product_by_sku", "get_order_by_id"}

\* C21: exact-key lookup by the natural key of any record of a loaded table
\* returns that record, every field and every list as it was loaded; lookup
\* of a key no record has returns nothing.
C21_LookupReturnsTheRecord ==
    ExactKeyLookup =>
        /\ \A i \in DOMAIN LookedUpRecords :
               LookedUpKeys[i] = call.key => ret.value = <<LookedUpRecords[i]>>
        /\ (\A i \in DOMAIN LookedUpRecords : LookedUpKeys[i] # call.key) => ret.value = <<>>

\* the same for the first record that has the key
C21_LookupReturnsFirstRecord ==
    ExactKeyLookup =>
        /\ \A i \in DOMAIN LookedUpRecords :
               (/\ LookedUpKeys[i] = call.key
                /\ \A j \in 1..(i - 1) : LookedUpKeys[j] # call.key)
                   => ret.value = <<LookedUpRecords[i]>>
        /\ (\A i \in DOMAIN LookedUpRecords : LookedUpKeys[i] # call.key) => ret.value = <<>>

\* a product with two vesa options was looked up by its sku
C21_Witness ==
    /\ call.op = "get_product_by_sku"
    /\ ret.value # <<>>
    /\ ret.value[1].sku = call.key
    /\ Len(ret.value[1].vesa_options) = 2

----------------------------------------------------------------------------
(* Claims on the rendering of orders *)

\* the fixed vocabulary of statuses, each with its label
StatusLabels ==
    [processing |-> "Processing", shipped |-> "Shipped",
     in_transit |-> "In transit", delivered |-> "Delivered"]

\* what the message shows for a status
ShownStatus(status) ==
    IF status \in DOMAIN StatusLabels THEN StatusLabels[status] ELSE status

\* C22: in the message of a successful lookup_user_orders and
\* lookup_order_details a status of the fixed vocabulary is shown as its
\* label and any other status as it is, and the payload carries the status
\* of the loaded order itself.
C22_StatusLabelInMessageRawInPayload ==
    /\ (call.op = "lookup_user_orders" /\ ret.value.success) =>
          LET orders == LedgerOrders(call.user_id)
          IN  /\ Len(ret.value.orders) = Len(orders)
              /\ \A i \in DOMAIN orders :
                    /\ Contains(ret.value.message,
                                Str(i) \o ". Order " \o orders[i].order_id \o " - Status: "
                                \o ShownStatus(orders[i].status) \o " - ")
                    /\ ret.value.orders[i].status = orders[i].status
    /\ (call.op = "lookup_order_details" /\ ret.value.success) =>
          LET order == OrdersWithId(call.order_id)[1]
          IN  /\ Contains(ret.value.message, "\nStatus: " \o ShownStatus(order.status) \o "\n")
              /\ ret.value.order.status = order.status

\* the orders of a user were listed, one with a status of the vocabulary and
\* one with another status
C22_Witness ==
    /\ call.op = "lookup_user_orders"
    /\ ret.value.success
    /\ Len(ret.value.orders) = 2
    /\ ret.value.orders[1].status = "returned"
    /\ ret.value.orders[2].status = "in_transit"
    /\ Contains(ret.value.message, "Status: returned - ")
    /\ Contains(ret.value.message, "Status: In transit - ")

----------------------------------------------------------------------------
(* The whole program: loading, the store's lifecycle and the handlers, in   *)
(* any order, each on a few inputs.                                         *)

LifecycleHandoverRequests ==
    [op : {"request"}, email : {EmailUser, EmailBad}, conversation_summary : {<<"h", "i">>},
     conversation_id : {None}]

NextLifecycle ==
    \/ LoadKnowledgeBaseFrom({KnowledgeSource(<<K1, K2>>), DropColumn(KnowledgeSource(<<K1>>), "id")})
    \/ LoadProductsFrom({ProductSource(<<P1, P2>>)})
    \/ LoadOrdersFromJsonFrom({<<UserEntry("u_123456", <<OD1, OD3>>)>>})
    \/ InitializeWithData
    \/ PopulateKnowledgeBaseWith({<<K1b>>})
    \/ PopulateProductsWith({<<P1b>>})
    \/ ResetDatabase
    \/ SearchKnowledgeBaseHandlerWith({"return policy"}, {2})
    \/ SearchProductsHandlerWith({"dual monitor arm"}, {Specifications(<<[key |-> "size", value |-> "32"]>>)}, {2})
    \/ LookupUserOrdersOf({"u_123456"})
    \/ LookupOrderDetailsOf({"JTCG-1", "JTCG-3"})
    \/ HandoverToHumanWith(LifecycleHandoverRequests)
    \/ DetectIntentOf({ExampleOrder, ExampleGeneral})

SpecLifecycle == Init /\ [][NextLifecycle]_vars

----------------------------------------------------------------------------
(* Claims on what changes the tables and the collections *)

\* the entries of both collections
Entries == [name \in CollectionNames |-> client[name].entries]

\* the call of the step is a capability handler or detect_intent
HandlerCalled(op) ==
    op \in {"search_knowledge_base", "handler_search_products", "lookup_user_orders",
            "lookup_order_details", "handover_to_human", "detect_intent"}

\* the call of the step is a load, a populate or the reset
ChangingCalled(op) ==
    op \in {"load_knowledge_base", "load_products", "load_orders_from_json",
            "populate_knowledge_base", "populate_products", "initialize_with_data",
            "reset_database"}

\* C23: a step of a capability handler or of detect_intent leaves the three
\* tables and the entries of both collections as they were; a step that
\* changes any of them is a load, a populate or the reset.
C23_HandlersChangeNothing ==
    [][/\ HandlerCalled(call'.op) =>
            /\ tableVars' = tableVars
            /\ Entries' = Entries
       /\ (tableVars' # tableVars \/ Entries' # Entries) => ChangingCalled(call'.op)]_vars

\* a search handler ran on a store object that had not set up its collections
\* yet, over an index that holds entries, with the tables loaded
C23_Witness ==
    /\ call.op = "search_knowledge_base"
    /\ ret.value.success
    /\ knowledge_collection
    /\ client.knowledge_base.entries # {}
    /\ inserted.knowledge_base = client.knowledge_base.entries
    /\ knowledge_base # <<>>
    /\ orders_db # <<>>

----------------------------------------------------------------------------
(* Claims on the answer of search_knowledge_base *)

\* the text the answer is to consist of for a knowledge item
AnswerText(item) ==
    item.content
    \o (IF item.url_href = "" THEN ""
        ELSE "\n\nSee: [" \o (IF item.url_label = "" THEN "Details" ELSE item.url_label)
             \o "](" \o item.url_href \o ")")
    \o (IF item.image_url = "" THEN "" ELSE "\n\nImage: " \o item.image_url)

\* the store results the returned payload can stem from
StoreResultsOfCall ==
    {o.value : o \in {x \in search_knowledge(VDB, call.query, call.n) :
                        /\ ~x.raised
                        /\ x.value # <<>>
                        /\ ret.value.results
                             = [i \in DOMAIN x.value |-> KnowledgeResultItem(x.value[i])]}}

\* the table's items with the id
ItemsWithId(knowledge_id) == SelectSeq(knowledge_base, LAMBDA item : item.id = knowledge_id)

\* C24: whenever search_knowledge_base succeeds, its message begins with the
\* content of the knowledge item that has the id of the first store result,
\* followed by the link and the image reference the item has, whatever the
\* index holds.
C24_MessageFromBestMatch ==
    (call.op = "search_knowledge_base" /\ ret.value.success) =>
        \E results \in StoreResultsOfCall :
            /\ ItemsWithId(results[1].id) # <<>>
            /\ ret.value.message = AnswerText(ItemsWithId(results[1].id)[1])
            /\ HasPrefix(ret.value.message, ItemsWithId(results[1].id)[1].content)

\* the same where the table holds an item with the id of the first result;
\* where it holds none the message is empty
C24_MessageFromBestMatchIfLoaded ==
    (call.op = "search_knowledge_base" /\ ret.value.success) =>
        \E results \in StoreResultsOfCall :
            IF ItemsWithId(results[1].id) # <<>>
            THEN ret.value.message = AnswerText(ItemsWithId(results[1].id)[1])
            ELSE ret.value.message = ""

\* a successful search whose best match has a link and an image
C24_Witness ==
    /\ call.op = "search_knowledge_base"
    /\ ret.value.success
    /\ Contains(ret.value.message, "\n\nSee: [")
    /\ Contains(ret.value.message, "\n\nImage: ")

----------------------------------------------------------------------------
(* Claims on the index after initialize_with_data *)

\* the natural keys of the in-memory tables
TableKeys ==
    [knowledge_base |-> {knowledge_base[i].id : i \in DOMAIN knowledge_base},
     products |-> {products[i].sku : i \in DOMAIN products}]

InitializeReturned == call.op = "initialize_with_data" /\ ~ret.raised

\* C25: after initialize_with_data has returned, on a fresh index and on a
\* persisted one, the keys of each collection are exactly the keys of the
\* table it was initialized from.
C25_IndexKeysAreTableKeys ==
    InitializeReturned =>
        \A name \in CollectionNames : Ids(client[name].entries) = TableKeys[name]

\* after initialize_with_data has returned, a collection that held no entry
\* before the call has exactly the keys of its table, and a collection that
\* held entries has the entries it had, whatever the table holds
C25_IndexKeysAreTableKeysIfEmptyBefore ==
    [][(call'.op = "initialize_with_data" /\ ~ret'.raised) =>
          \A name \in CollectionNames :
              IF client[name].entries = {}
              THEN Ids(client'[name].entries) = TableKeys[name]
              ELSE client'[name].entries = client[name].entries]_vars

\* initialize_with_data returned where the knowledge collection was persisted
\* with the earlier content of FAQ-1 and the products collection was empty:
\* the first is as it was, the second holds the two loaded products
C25_Witness ==
    /\ InitializeReturned
    /\ knowledge_base = <<K1b, K2>>
    /\ client.knowledge_base.entries = {KnowledgeEntry(K1), KnowledgeEntry(K2)}
    /\ products = <<P1b, P2>>
    /\ client.products.entries = {ProductEntry(P1b), ProductEntry(P2)}

----------------------------------------------------------------------------
(* Claims on wiping and repopulating *)

\* the collection a populate call fills, and the natural keys of its records
PopulatedCollection(op) ==
    IF op = "populate_knowledge_base" THEN "knowledge_base" ELSE "products"

RecordKeys(op, records) ==
    IF op = "populate_knowledge_base"
    THEN [i \in DOMAIN records |-> records[i].id]
    ELSE [i \in DOMAIN records |-> records[i].sku]

DistinctKeys(keys) == \A i, j \in DOMAIN keys : i # j => keys[i] # keys[j]

\* C26: reset_database leaves neither collection; a populate call on a
\* collection without entries, as the reset leaves it, with a non-empty list
\* of records of distinct keys is not skipped and leaves exactly one entry
\* per record under the record's key; and the entries of a collection that
\* holds entries change by no step but the reset.
C26_WipeAndRepopulate ==
    [][/\ call'.op = "reset_database" =>
            \A name \in CollectionNames : client'[name] = NoCollection
       /\ (/\ call'.op \in {"populate_knowledge_base", "populate_products"}
           /\ client[PopulatedCollection(call'.op)].entries = {}
           /\ call'.records # <<>>
           /\ DistinctKeys(RecordKeys(call'.op, call'.records))) =>
            LET name == PopulatedCollection(call'.op)
                keys == RecordKeys(call'.op, call'.records)
            IN  /\ ~ret'.raised
                /\ Ids(client'[name].entries) = Range(keys)
                /\ Cardinality(client'[name].entries) = Len(keys)
       /\ \A name \in CollectionNames :
            (client[name].entries # {} /\ client'[name].entries # client[name].entries)
                => call'.op = "reset_database"]_vars

\* two knowledge items, one of them a changed version of a persisted one,
\* were populated into the knowledge collection
C26_Witness ==
    /\ call.op = "populate_knowledge_base"
    /\ call.records = <<K1b, K2>>
    /\ ~ret.raised
    /\ client.knowledge_base.entries = {KnowledgeEntry(K1b), KnowledgeEntry(K2)}
    /\ client.products.entries = {}

----------------------------------------------------------------------------
(* VectorDB: the document text of a record, for records with any of the     *)
(* optional fields empty                                                    *)

DocumentKnowledgeItems ==
    [id : {"FAQ-2"}, title : {"Warranty"}, content : {"Two years", "Two years. Keep the receipt."},
     url_label : {""}, url_href : {"", "https://jtcg/warranty"}, image_url : {""},
     tags : {<<>>, <<"warranty">>, <<"warranty", "policy">>}]

DocumentProducts ==
    [sku : {"ARM-2"}, name : {"Dual Arm"}, arm_type : {"", "dual"}, size_max_inch : {"", "32"},
     vesa_options : {<<>>, <<"75x75", "100x100">>}, weight_per_arm_kg : {"", "9"},
     desk_thickness_mm : {"", "10-50"}, rotation : {""}, tilt : {""}, swivel : {""},
     usb_hub : {FALSE}, compatibility_notes : {"", "Needs 60cm desk"}, url : {""},
     image_url : {""}, reach_mm : {""}, tray_size_inch : {""},
     includes : {<<>>, <<"clamp", "grommet">>}]

InitDocument ==
    Requested([op : {"request"}, kind : {"knowledge"}, record : DocumentKnowledgeItems]
              \cup [op : {"request"}, kind : {"product"}, record : DocumentProducts])

CreateKnowledgeDocument ==
    /\ call.op = "request"
    /\ call.kind = "knowledge"
    /\ call' = [call EXCEPT !.op = "_create_knowledge_document"]
    /\ ret' = [raised |-> FALSE, error |-> "", value |-> _create_knowledge_document(call.record)]
    /\ UNCHANGED <<storeVars, tableVars, handoverVars>>

CreateProductDocument ==
    /\ call.op = "request"
    /\ call.kind = "product"
    /\ call' = [call EXCEPT !.op = "_create_product_document"]
    /\ ret' = [raised |-> FALSE, error |-> "", value |-> _create_product_document(call.record)]
    /\ UNCHANGED <<storeVars, tableVars, handoverVars>>

NextDocument == CreateKnowledgeDocument \/ CreateProductDocument

SpecDocument == InitDocument /\ [][NextDocument]_vars

----------------------------------------------------------------------------
(* Claims on the document text *)

\* the text of a list field
Listed(list) == IF list = <<>> THEN "" ELSE Join(", ", list)

\* the fields of a record in the fixed order, each as [label, text, unit]
LabeledFields(kind, r) ==
    IF kind = "knowledge"
    THEN <<[label |-> "Title", text |-> r.title, unit |-> ""],
           [label |-> "Content", text |-> r.content, unit |-> ""],
           [label |-> "Tags", text |-> Listed(r.tags), unit |-> ""]>>
    ELSE <<[label |-> "Name", text |-> r.name, unit |-> ""],
           [label |-> "SKU", text |-> r.sku, unit |-> ""],
           [label |-> "Type", text |-> r.arm_type, unit |-> ""],
           [label |-> "Size", text |-> r.size_max_inch, unit |-> " inch"],
           [label |-> "VESA", text |-> Listed(r.vesa_options), unit |-> ""],
           [label |-> "Weight", text |-> r.weight_per_arm_kg, unit |-> " kg"],
           [label |-> "Desk", text |-> r.desk_thickness_mm, unit |-> " mm"],
           [label |-> "Notes", text |-> r.compatibility_notes, unit |-> ""],
           [label |-> "Includes", text |-> Listed(r.includes), unit |-> ""]>>

Segment(f) == f.label \o ": " \o f.text \o f.unit

\* the segments of the fields that are kept, joined by single spaces
JoinedSegments(fields, Kept(_)) ==
    LET kept == SelectSeq(fields, Kept)
    IN  Join(" ", [i \in DOMAIN kept |-> Segment(kept[i])])

DocumentCreated == call.op \in {"_create_knowledge_document", "_create_product_document"}

\* C27: the document text of a record is the labeled segments of exactly its
\* non-empty fields, in the fixed order, joined by single spaces; an empty
\* field contributes nothing, not even its label.
C27_DocumentOfNonEmptyFields ==
    DocumentCreated =>
        ret.value = JoinedSegments(LabeledFields(call.kind, call.record),
                                   LAMBDA f : f.text # "")

\* the same with the segments of Title, Content, Name, SKU and Type written
\* whether or not the field is empty
C27_DocumentOfFixedAndNonEmptyFields ==
    DocumentCreated =>
        ret.value = JoinedSegments(LabeledFields(call.kind, call.record),
                                   LAMBDA f : \/ f.text # ""
                                              \/ f.label \in {"Title", "Content", "Name", "SKU", "Type"})

\* the document of a product with an empty size and an empty includes list
C27_Witness ==
    /\ call.op = "_create_product_document"
    /\ call.record.arm_type = "dual"
    /\ call.record.size_max_inch = ""
    /\ call.record.vesa_options # <<>>
    /\ call.record.includes = <<>>
    /\ ~Contains(ret.value, "Size")
    /\ Contains(ret.value, "Type: dual VESA: 75x75, 100x100")

----------------------------------------------------------------------------
(* Claims on numeric and boolean cells *)

\* the string-typed scalar fields of the two record kinds, each with its column
KnowledgeStringColumns ==
    {<<"id", "id">>, <<"title", "title">>, <<"content", "content">>} \cup KnowledgeOptionalColumns

ProductStringColumns == {<<"sku", "sku">>, <<"name", "name">>} \cup ProductOptionalColumns

\* the columns of the string-typed fields, list columns included
IsStringColumn(columns, prefixes, c) ==
    \/ \E fc \in columns : fc[2] = c
    \/ \E prefix \in prefixes : HasPrefix(c, prefix)

\* a cell of a string-typed column of the source is numeric
NumericCellIn(source, columns, prefixes) ==
    \E i \in DOMAIN source.rows : \E c \in DOMAIN source.rows[i] :
        source.rows[i][c].t = "num" /\ IsStringColumn(columns, prefixes, c)

\* every numeric cell of a scalar string column is stored as its text
StoredAsText(source, table, columns) ==
    /\ Len(table) = Len(source.rows)
    /\ \A i \in DOMAIN table : \A fc \in columns :
          (fc[2] \in DOMAIN source.rows[i] /\ source.rows[i][fc[2]].t = "num")
              => table[i][fc[1]] = source.rows[i][fc[2]].v

\* C28: a source with a numeric cell in a string-typed column is loaded, not
\* rejected, and the cell is stored as its text, in a scalar field and in a
\* list field alike.
C28_NumericCellsStoredAsText ==
    /\ (/\ call.op = "load_knowledge_base"
        /\ NumericCellIn(call.source, KnowledgeStringColumns, {"tags/"})) =>
          /\ ~ret.raised
          /\ StoredAsText(call.source, knowledge_base, KnowledgeStringColumns)
          /\ KnowledgeLists_read(call.source, knowledge_base)
    /\ (/\ call.op = "load_products"
        /\ NumericCellIn(call.source, ProductStringColumns, {"specs/vesa/", "specs/includes/"})) =>
          /\ ~ret.raised
          /\ StoredAsText(call.source, products, ProductStringColumns)
          /\ ProductLists_read(call.source, products)

\* the same for the product fields read through safe_get; a numeric cell of
\* any other string-typed column makes the load raise a ValidationError
C28_NumericSpecCellsStoredAsText ==
    /\ (/\ call.op = "load_knowledge_base"
        /\ NumericCellIn(call.source, KnowledgeStringColumns, {"tags/"})) =>
          ret.raised /\ ret.error = "ValidationError"
    /\ call.op = "load_products" =>
          IF NumericCellIn(call.source, {<<"sku", "sku">>, <<"name", "name">>},
                           {"specs/vesa/", "specs/includes/"})
          THEN ret.raised /\ ret.error = "ValidationError"
          ELSE NumericCellIn(call.source, ProductOptionalColumns, {}) =>
                  /\ ~ret.raised
                  /\ StoredAsText(call.source, products, ProductOptionalColumns)

\* products were loaded from a source with numeric size and reach cells
C28_Witness ==
    /\ call.op = "load_products"
    /\ ~ret.raised
    /\ Len(products) = 2
    /\ call.source.rows[1]["specs/size_max_inch"] = NumCell("27.0")
    /\ products[1].size_max_inch = "27.0"
    /\ products[2].reach_mm = "450"


\* what the usb_hub cell of a source row stands for
UsbHubOfCell(row) ==
    IF NoValue(row, "specs/usb_hub") THEN FALSE ELSE row["specs/usb_hub"].v

\* C29: load_products sets usb_hub to false for a missing or null
\* specs/usb_hub cell and otherwise to the boolean value of the cell.
C29_UsbHubIsCellValue ==
    (call.op = "load_products" /\ ~ret.raised) =>
        \A i \in DOMAIN products :
            (NoValue(call.source.rows[i], "specs/usb_hub")
             \/ call.source.rows[i]["specs/usb_hub"].t = "bool")
                => products[i].usb_hub = UsbHubOfCell(call.source.rows[i])

\* usb_hub is false for a missing or null cell and true for every other cell,
\* a false one included
C29_UsbHubIsCellPresence ==
    (call.op = "load_products" /\ ~ret.raised) =>
        \A i \in DOMAIN products :
            products[i].usb_hub = ~NoValue(call.source.rows[i], "specs/usb_hub")

\* products were loaded from a source with a true usb_hub cell in the first
\* row and an empty one in the second
C29_Witness ==
    /\ call.op = "load_products"
    /\ ~ret.raised
    /\ Len(products) = 2
    /\ "specs/usb_hub" \in DOMAIN call.source.rows[1]
    /\ call.source.rows[1]["specs/usb_hub"] = BoolCell(TRUE)
    /\ call.source.rows[2]["specs/usb_hub"] = NaN
    /\ products[1].usb_hub
    /\ ~products[2].usb_hub

----------------------------------------------------------------------------
(* The query the product search hands to the retrieval store *)

\* the entries of a specifications argument, none for None
GivenItems(specifications) ==
    IF "items" \in DOMAIN specifications THEN specifications.items ELSE <<>>

\* the entries with a non-empty value, in the mapping's order
NonEmptyEntries(specifications) ==
    SelectSeq(GivenItems(specifications), LAMBDA entry : entry.value # "")

\* the 'key: value' texts of the entries with a non-empty value
KeyValueTexts(specifications) ==
    [i \in DOMAIN NonEmptyEntries(specifications) |->
        NonEmptyEntries(specifications)[i].key \o ": "
            \o NonEmptyEntries(specifications)[i].value]

\* C30: search_products passes to the retrieval store the caller's query
\* followed by a space and the space-joined 'key: value' texts of every
\* specifications entry with a non-empty value, in the mapping's order; with
\* no specifications (None, an empty mapping, only empty values) the query is
\* passed unchanged. The store is asked once, in the products collection.
C30_QueryAugmentedBySpecifications ==
    call.op = "handler_search_products" =>
        /\ Len(call.queries) = 1
        /\ call.queries[1].collection = "products"
        /\ call.queries[1].query_texts =
              IF NonEmptyEntries(call.specifications) = <<>>
              THEN call.query
              ELSE call.query \o " " \o Join(" ", KeyValueTexts(call.specifications))

\* a search whose specifications hold an entry with an empty value before one
\* with a value: the store was asked for the query and the second entry only
C30_Witness ==
    /\ call.op = "handler_search_products"
    /\ "items" \in DOMAIN call.specifications
    /\ Len(call.specifications.items) = 2
    /\ call.specifications.items[1].value = ""
    /\ call.specifications.items[2].value = "27"
    /\ call.queries[1].query_texts = call.query \o " size: 27"

====
